---------------------------- MODULE Spec2Model ----------------------------
(***************************************************************************)
(* A model of the Kurral capture / replay core.                            *)
(*                                                                         *)
(* The module holds one state machine per component; each component has    *)
(* its own specification (SpecCache, SpecCacheThreads, SpecReplay, ...)    *)
(* over the shared variable list.  A component's variables keep their idle *)
(* value under the specifications of the other components.                 *)
(***************************************************************************)
EXTENDS Integers, Sequences, FiniteSets, TLC

VARIABLES
    \* ---- kurral/storage/cache.py : MemoryCache / SQLiteCache ----
    backend,        \* which CacheBackend class the object is
    ttl_seconds,    \* self.ttl_seconds
    store,          \* self.cache (dict) / the rows of table `cache`
    now,            \* int(time.time())
    ticks,          \* number of clock advances so far (bounded)
    lastOp,         \* the last cache call and what it returned
    primed,         \* history: what was last primed under each key and when
    \* ---- threads sharing one MemoryCache ----
    thr,            \* per thread: the call it is in and where it stands
    everPrimed,     \* history: every payload primed under each key
    \* ---- kurral/core/replay.py : ReplayEngine ----
    artifact,       \* the KurralArtifact handed to replay()
    overrides,      \* the ReplayOverrides handed to replay(): <<>> is None
    result,         \* the ReplayResult returned
    rpc,            \* "ready" before the call, "done" after it
    \* ---- Kurral_tester/write_side_effect_interceptor.py ----
    patched,        \* what smtplib.SMTP_SSL, smtplib.SMTP, builtins.open and
                    \* os.environ.__setitem__ are bound to
    ic,             \* the fields of the global _interceptor
    scopes,         \* interception scopes entered and not yet left
    before,         \* history: the bindings when the outermost scope was entered
    world,          \* what really happened: files written, mail sent, environment
    lastCall,       \* the last call made by the code under replay
    \* ---- kurral/core/decorator.py : trace_llm ----
    cfg,            \* wrapper kind, auto_export, storage backend
    cap,            \* the wrapper's locals and its TraceContext
    stored,         \* every artifact stored so far, and where
    outcome,        \* what the caller of the wrapper got
    \* ---- kurral/core/determinism.py, kurral/core/artifact.py ----
    scorer,         \* the last call of the scorer or generator and its result
    \* ---- kurral/core/ars.py : ARSCalculator ----
    ars,            \* the last call of calculate() and what it returned
    \* ---- Kurral_tester/langchain_integration.py : ToolCallCaptureHandler,
    \*      kurral/integrations/langgraph_callback.py : KurralToolTracker ----
    trk,            \* the handler's fields and the tool runs it was told of
    \* ---- Kurral_tester/artifact_manager.py : ArtifactManager,
    \*      kurral/core/decorator.py : _enrich_artifact_from_langsmith_sync ----
    disk,           \* the store directory: the .kurral files and index.json
    procs,          \* the save() calls and the enrichment thread: where each stands
    \* ---- kurral/storage/memory.py : MemoryStorage ----
    mem,            \* the object's fields, a clock and the last call made
    \* ---- Kurral_tester/artifact_manager.py : ArtifactManager.load_by_run_id ----
    lookup,         \* the store directory looked into and what the call returned
    \* ---- kurral/core/artifact.py, decorator.py : a persisted artifact ----
    sealed,         \* the fields of one .kurral file as generated and enriched
    \* ---- kurral/core/ab_test.py : ABTestEngine ----
    ab,             \* the last run_ab_test call and what it returned
    \* ---- kurral/mcp : MCPCaptureEngine ----
    mcp             \* the engine's mode, its captures in flight and its cache

cacheVars  == <<backend, ttl_seconds, store, now, ticks, lastOp, primed>>
threadVars == <<thr, everPrimed>>
replayVars == <<artifact, overrides, result, rpc>>
interceptVars == <<patched, ic, scopes, before, world, lastCall>>
captureVars == <<cfg, cap, stored, outcome>>

coreVars == <<cacheVars, threadVars, replayVars, interceptVars, captureVars>>
moreVars == <<mem, lookup, sealed, ab, mcp>>
extVars == <<scorer, ars, trk, disk, procs, moreVars>>

vars == <<coreVars, extVars>>

\* What each component leaves alone.
notCacheVars  == <<threadVars, replayVars, interceptVars, captureVars, extVars>>
notThreadVars == <<backend, ttl_seconds, ticks, lastOp, primed, replayVars,
                   interceptVars, captureVars, extVars>>
notReplayVars == <<backend, ttl_seconds, now, ticks, lastOp, primed, threadVars,
                   interceptVars, captureVars, extVars>>
notInterceptVars == <<cacheVars, threadVars, replayVars, captureVars, extVars>>
notCaptureVars == <<cacheVars, threadVars, replayVars, interceptVars, extVars>>
storeVars == <<disk, procs>>
notScorerVars == <<coreVars, ars, trk, storeVars, moreVars>>
notArsVars == <<coreVars, scorer, trk, storeVars, moreVars>>
notTrackerVars == <<coreVars, scorer, ars, storeVars, moreVars>>
notStoreVars == <<coreVars, scorer, ars, trk, moreVars>>
firstVars == <<coreVars, scorer, ars, trk, storeVars>>
notMemVars == <<firstVars, lookup, sealed, ab, mcp>>
notLookupVars == <<firstVars, mem, sealed, ab, mcp>>
notSealedVars == <<firstVars, mem, lookup, ab, mcp>>
notAbVars == <<firstVars, mem, lookup, sealed, mcp>>
notMcpVars == <<firstVars, mem, lookup, sealed, ab>>

-----------------------------------------------------------------------------
(***************************************************************************)
(* Python values shared by the components                                  *)
(***************************************************************************)

\* Python's None where the other values are strings.
None == "None"

-----------------------------------------------------------------------------
(***************************************************************************)
(* kurral/storage/cache.py                                                 *)
(***************************************************************************)

\* Bounds of the cache model.
MaxTicks == 3

\* MemoryCache.__init__ / SQLiteCache.__init__ : ttl_seconds: int = 3600
DefaultTtlSeconds == 3600

CacheKeys == {"k1", "k2"}
Payloads  == {"p1", "p2"}
Backends  == {"MemoryCache", "SQLiteCache"}
TtlChoices == {1, DefaultTtlSeconds}

\* json.dumps(response) for the JSON-native payloads the cache is given: the
\* stored column is a text, not the dict.
JsonDumps(response) == <<"json", response>>

\* json.loads(response_json)
JsonLoads(text) == text[2]

\* What a backend keeps for a response: MemoryCache keeps the object,
\* SQLiteCache keeps its JSON text.
Stored(b, response) == IF b = "SQLiteCache" THEN JsonDumps(response) ELSE response

Loaded(b, kept) == IF b = "SQLiteCache" THEN JsonLoads(kept) ELSE kept

\* expires_at = int(time.time()) + self.ttl_seconds
ExpiresAtBug(t, ttl) == t

ExpiresAt(t, ttl) == t + ttl

\* `if expires_at < int(time.time())` (MemoryCache.get) and
\* `if expires_at < now` (SQLiteCache.get)
IsExpiredBug(expires_at, t) == expires_at <= t

IsExpired(expires_at, t) == expires_at < t

\* self.cache[cache_key] = (response, expires_at) / INSERT OR REPLACE
StorePut(s, k, entry) ==
    [key \in DOMAIN s \cup {k} |-> IF key = k THEN entry ELSE s[key]]

\* self.cache.pop(cache_key, None) / DELETE FROM cache WHERE cache_key = ?
StoreDel(s, k) == [key \in DOMAIN s \ {k} |-> s[key]]

EmptyStore == [key \in {} |-> None]

\* The value get(k) returns on store s at time t, and the store it leaves.
GetResult(b, s, k, t) ==
    IF k \notin DOMAIN s THEN None
    ELSE IF IsExpired(s[k].expires_at, t) THEN None
    ELSE Loaded(b, s[k].response)

GetStore(s, k, t) ==
    IF k \in DOMAIN s /\ IsExpired(s[k].expires_at, t) THEN StoreDel(s, k) ELSE s

Threads == {1, 2}

ThreadIdle == [pc |-> "idle", op |-> "none", key |-> None, response |-> None,
               expires_at |-> 0, ret |-> None, raised |-> None]

ThreadsIdle ==
    /\ thr = [t \in Threads |-> ThreadIdle]
    /\ everPrimed = [k \in CacheKeys |-> {}]

\* The replay engine before any artifact is handed to it.
ReplayIdle ==
    /\ artifact = <<>>
    /\ overrides = <<>>
    /\ result = <<>>
    /\ rpc = "idle"

\* No exception.
NoExc == [type |-> None, msg |-> None]

\* TraceContext.__init__ and the locals of a wrapper before the agent runs.
CapStart ==
    [pc |-> "call", outputs_collected |-> <<>>, stream_map |-> <<>>,
     current_offset |-> 0, idx |-> 0, error |-> <<>>, generator_error |-> NoExc,
     agent_exc |-> NoExc,
     agent_calls |-> 0, export_attempts |-> 0,
     cancelled |-> NoExc, last_export |-> <<>>, enrichment_started |-> FALSE]

NoOutcome == [kind |-> "pending", value |-> None, exc |-> NoExc]

\* No wrapper is running.
CaptureIdle ==
    /\ cfg = [kind |-> "none", auto_export |-> FALSE, storage |-> "local",
              langsmith |-> FALSE]
    /\ cap = CapStart
    /\ stored = <<>>
    /\ outcome = NoOutcome

\* DeterminismScorer.__init__ : no call made yet, no tool call captured.
ScorerStart ==
    [op |-> "init", tool_calls |-> <<>>, input |-> <<>>, score_arg |-> 0,
     report |-> <<>>, replay_level |-> None, deterministic |-> <<>>]

ScorerIdle == scorer = ScorerStart

\* ARSCalculator has no fields: no call made yet.
ArsStart == [op |-> "init"]

ArsIdle == ars = ArsStart

\* No callback handler has been constructed.
TrackerIdle == trk = [handler |-> "none"]

\* No store directory is in use.
StoreIdle == disk = <<>> /\ procs = <<>>

\* A component no call has reached yet.
Unused == [op |-> "unused"]

MemIdle == mem = Unused

LookupIdle == lookup = Unused

SealedIdle == sealed = Unused

AbIdle == ab = Unused

McpIdle == mcp = Unused

MoreIdle == MemIdle /\ LookupIdle /\ SealedIdle /\ AbIdle /\ McpIdle

\* The components modelled further down are idle.
ExtIdle == ScorerIdle /\ ArsIdle /\ TrackerIdle /\ StoreIdle /\ MoreIdle

\* The process before any interception: every target is the library's own.
Originals == [SMTP_SSL |-> "original", SMTP |-> "original",
              open |-> "original", environ_setitem |-> "original"]

\* WriteSideEffectInterceptor.__init__, and the process around it.
InterceptIdle ==
    /\ patched = Originals
    /\ ic = [original_smtp_ssl |-> None, original_smtp |-> None,
             original_open |-> None, original_environ_setitem |-> None,
             active |-> FALSE]
    /\ scopes = 0
    /\ before = Originals
    /\ world = [file_written |-> FALSE, mail_sent |-> FALSE, env |-> {}]
    /\ lastCall = [op |-> "none", arg |-> None, active |-> FALSE,
                   reached |-> "none", scopes_left |-> 0]

CacheIdle ==
    /\ backend = "MemoryCache"
    /\ ttl_seconds = DefaultTtlSeconds
    /\ store = EmptyStore
    /\ now = 0
    /\ ticks = 0
    /\ lastOp = [op |-> "init", key |-> None, value |-> None]
    /\ primed = [k \in CacheKeys |-> [payload |-> None, at |-> 0]]

CacheInit ==
    /\ backend \in Backends
    /\ ttl_seconds \in TtlChoices
    /\ store = EmptyStore
    /\ now = 0
    /\ ticks = 0
    /\ lastOp = [op |-> "init", key |-> None, value |-> None]
    /\ primed = [k \in CacheKeys |-> [payload |-> None, at |-> 0]]

\* prime(cache_key, response)
Prime(k, p) ==
    /\ store' = StorePut(store, k,
                    [response |-> Stored(backend, p),
                     expires_at |-> ExpiresAt(now, ttl_seconds)])
    /\ lastOp' = [op |-> "prime", key |-> k, value |-> None]
    /\ primed' = [primed EXCEPT ![k] = [payload |-> p, at |-> now]]
    /\ UNCHANGED <<backend, ttl_seconds, now, ticks>>
    /\ UNCHANGED notCacheVars

\* get(cache_key)
Get(k) ==
    /\ lastOp' = [op |-> "get", key |-> k,
                  value |-> GetResult(backend, store, k, now)]
    /\ store' = GetStore(store, k, now)
    /\ UNCHANGED <<backend, ttl_seconds, now, ticks, primed>>
    /\ UNCHANGED notCacheVars

\* evict(cache_key)
Evict(k) ==
    /\ store' = StoreDel(store, k)
    /\ lastOp' = [op |-> "evict", key |-> k, value |-> None]
    /\ primed' = [primed EXCEPT ![k] = [payload |-> None, at |-> 0]]
    /\ UNCHANGED <<backend, ttl_seconds, now, ticks>>
    /\ UNCHANGED notCacheVars

\* clear()
Clear ==
    /\ store' = EmptyStore
    /\ lastOp' = [op |-> "clear", key |-> None, value |-> None]
    /\ primed' = [k \in CacheKeys |-> [payload |-> None, at |-> 0]]
    /\ UNCHANGED <<backend, ttl_seconds, now, ticks>>
    /\ UNCHANGED notCacheVars

\* The wall clock moves on, by a second or by a whole ttl.
Tick(d) ==
    /\ ticks < MaxTicks
    /\ now' = now + d
    /\ ticks' = ticks + 1
    /\ lastOp' = [op |-> "tick", key |-> None, value |-> None]
    /\ UNCHANGED <<backend, ttl_seconds, store, primed>>
    /\ UNCHANGED notCacheVars

DoPrime == \E k \in CacheKeys, p \in Payloads : Prime(k, p)
DoGet   == \E k \in CacheKeys : Get(k)
DoEvict == \E k \in CacheKeys : Evict(k)
DoTick  == \E d \in {1, ttl_seconds} : Tick(d)

NextCache == DoPrime \/ DoGet \/ DoEvict \/ Clear \/ DoTick

InitCache == CacheInit /\ ThreadsIdle /\ ReplayIdle /\ InterceptIdle /\ CaptureIdle /\ ExtIdle

SpecCache == InitCache /\ [][NextCache]_vars

\* The payload a get(k) has to return by the history of calls: the one last
\* primed under k, unless k was evicted or cleared since or its expiry
\* (prime time + ttl) has passed.
Expected(k) ==
    IF primed[k].payload = None THEN None
    ELSE IF primed[k].at + ttl_seconds < now THEN None
    ELSE primed[k].payload

\* C9: for MemoryCache and SQLiteCache, after any sequence of
\* prime/get/evict/clear calls and clock advances, get(k) returns the payload
\* most recently primed under k when k has been primed, not evicted or cleared
\* since, and its expiry (prime time + ttl) has not passed, and otherwise
\* returns absence; a get that finds an expired entry removes it from the
\* store; a prime on a key already present replaces payload and expiry.
C9_GetReturnsLastPrimed ==
    /\ lastOp.op = "get" =>
          /\ lastOp.value = Expected(lastOp.key)
          /\ (lastOp.value = None => lastOp.key \notin DOMAIN store)
          /\ (primed[lastOp.key].payload # None
                /\ primed[lastOp.key].at + ttl_seconds < now
                    => lastOp.key \notin DOMAIN store)
    /\ lastOp.op = "prime" =>
          /\ lastOp.key \in DOMAIN store
          /\ Loaded(backend, store[lastOp.key].response) = primed[lastOp.key].payload
          /\ store[lastOp.key].expires_at = now + ttl_seconds

\* C9 witness: a get has just found an expired entry, primed after the clock
\* had already moved, returned absence and removed the entry.
C9_Witness ==
    /\ lastOp.op = "get"
    /\ primed[lastOp.key].payload = "p2"
    /\ primed[lastOp.key].at > 0
    /\ primed[lastOp.key].at + ttl_seconds < now
    /\ lastOp.value = None
    /\ lastOp.key \notin DOMAIN store

-----------------------------------------------------------------------------
(***************************************************************************)
(* kurral/storage/cache.py : MemoryCache called from several threads.      *)
(* The class holds no lock; one dict operation is atomic (the interpreter  *)
(* lock), a method made of several is not.                                 *)
(***************************************************************************)

\* MemoryCache.prime: one dict store.
TPrime(t, k, p) ==
    /\ thr[t].pc = "idle"
    /\ store' = StorePut(store, k,
                    [response |-> p, expires_at |-> ExpiresAt(now, ttl_seconds)])
    /\ everPrimed' = [everPrimed EXCEPT ![k] = @ \cup {p}]
    /\ thr' = [thr EXCEPT ![t] = [ThreadIdle EXCEPT !.op = "prime", !.key = k]]
    /\ UNCHANGED <<now>>
    /\ UNCHANGED notThreadVars

\* MemoryCache.evict: self.cache.pop(cache_key, None)
TEvict(t, k) ==
    /\ thr[t].pc = "idle"
    /\ store' = StoreDel(store, k)
    /\ thr' = [thr EXCEPT ![t] = [ThreadIdle EXCEPT !.op = "evict", !.key = k]]
    /\ UNCHANGED <<now, everPrimed>>
    /\ UNCHANGED notThreadVars

\* MemoryCache.clear: self.cache.clear()
TClear(t) ==
    /\ thr[t].pc = "idle"
    /\ store' = EmptyStore
    /\ thr' = [thr EXCEPT ![t] = [ThreadIdle EXCEPT !.op = "clear"]]
    /\ UNCHANGED <<now, everPrimed>>
    /\ UNCHANGED notThreadVars

\* MemoryCache.get, first statement: `if cache_key not in self.cache: return None`
TGetTest(t, k) ==
    /\ thr[t].pc = "idle"
    /\ thr' = [thr EXCEPT ![t] =
                 IF k \in DOMAIN store
                 THEN [ThreadIdle EXCEPT !.op = "get", !.key = k, !.pc = "read"]
                 ELSE [ThreadIdle EXCEPT !.op = "get", !.key = k]]
    /\ UNCHANGED <<store, now, everPrimed>>
    /\ UNCHANGED notThreadVars

\* MemoryCache.get: `response, expires_at = self.cache[cache_key]`
\* (KeyError when the key has gone since the test)
TGetRead(t) ==
    /\ thr[t].pc = "read"
    /\ thr' = [thr EXCEPT ![t] =
                 IF thr[t].key \in DOMAIN store
                 THEN [@ EXCEPT !.pc = "check",
                                !.response = store[thr[t].key].response,
                                !.expires_at = store[thr[t].key].expires_at]
                 ELSE [@ EXCEPT !.pc = "idle", !.raised = "KeyError"]]
    /\ UNCHANGED <<store, now, everPrimed>>
    /\ UNCHANGED notThreadVars

\* MemoryCache.get: the expiry check, `del self.cache[cache_key]` (KeyError
\* when the key has gone since the read) and the return.
TGetCheck(t) ==
    /\ thr[t].pc = "check"
    /\ IF IsExpired(thr[t].expires_at, now)
       THEN IF thr[t].key \in DOMAIN store
            THEN /\ store' = StoreDel(store, thr[t].key)
                 /\ thr' = [thr EXCEPT ![t] = [@ EXCEPT !.pc = "idle"]]
            ELSE /\ store' = store
                 /\ thr' = [thr EXCEPT ![t] =
                              [@ EXCEPT !.pc = "idle", !.raised = "KeyError"]]
       ELSE /\ store' = store
            /\ thr' = [thr EXCEPT ![t] =
                         [@ EXCEPT !.pc = "idle", !.ret = thr[t].response]]
    /\ UNCHANGED <<now, everPrimed>>
    /\ UNCHANGED notThreadVars

\* The wall clock moves on while the threads run (here always past the
\* expiry of what is stored).
TTick(d) ==
    /\ ticks < MaxTicks
    /\ now' = now + d
    /\ ticks' = ticks + 1
    /\ UNCHANGED <<backend, ttl_seconds, store, lastOp, primed>>
    /\ UNCHANGED <<threadVars, replayVars, interceptVars, captureVars, extVars>>

ThreadPrime   == \E t \in Threads, k \in CacheKeys, p \in Payloads : TPrime(t, k, p)
ThreadEvict   == \E t \in Threads, k \in CacheKeys : TEvict(t, k)
ThreadClear   == \E t \in Threads : TClear(t)
ThreadGetTest == \E t \in Threads, k \in CacheKeys : TGetTest(t, k)
ThreadGetRead == \E t \in Threads : TGetRead(t)
ThreadGetCheck == \E t \in Threads : TGetCheck(t)
ThreadTick    == \E d \in {ttl_seconds + 1} : TTick(d)

NextCacheThreads ==
    \/ ThreadPrime \/ ThreadEvict \/ ThreadClear
    \/ ThreadGetTest \/ ThreadGetRead \/ ThreadGetCheck \/ ThreadTick

InitCacheThreads ==
    /\ CacheIdle
    /\ ThreadsIdle
    /\ ReplayIdle
    /\ InterceptIdle
    /\ CaptureIdle
    /\ ExtIdle

SpecCacheThreads == InitCacheThreads /\ [][NextCacheThreads]_vars

\* C10: cache operations exclude each other: when get, prime, evict and clear
\* run concurrently on one shared MemoryCache, every get returns absence or a
\* payload that was primed under its key, and no operation raises.
C10_NoCallRaises ==
    \A t \in Threads :
        /\ thr[t].raised = None
        /\ (thr[t].op = "get" /\ thr[t].pc = "idle" /\ thr[t].ret # None
               => thr[t].ret \in everPrimed[thr[t].key])

-----------------------------------------------------------------------------
(***************************************************************************)
(* kurral/core/replay.py : ReplayEngine                                    *)
(*                                                                         *)
(* A dict is the sequence of its <<key, value>> pairs in insertion order;  *)
(* a JSON leaf is a record of its type and its text.  An optional object   *)
(* is a sequence: <<>> for None, <<x>> for x.                              *)
(***************************************************************************)

\* Bound of the replay model: the longest tool_calls list of an artifact.
MaxToolCalls == 2

JStr(x) == [t |-> "str", v |-> x]
JInt(x) == [t |-> "int", v |-> x]
JNull   == [t |-> "null", v |-> "null"]

JList(x) == [t |-> "list", v |-> x]
JDict(x) == [t |-> "dict", v |-> x]

\* The place of a key in the lexicographic order json.dumps(sort_keys=True) uses.
KeyRank(k) ==
    CASE k = "full_text" -> 1
      [] k = "items" -> 2
      [] k = "n" -> 3
      [] k = "r" -> 4
      [] k = "response" -> 5
      [] k = "stream_map" -> 6

DictKeys(d) == {d[i][1] : i \in DOMAIN d}

DictGet(d, k) == d[CHOOSE i \in DOMAIN d : d[i][1] = k][2]

\* One entry of a stream_map; a text is the sequence of its characters.
StreamEntry(fragment, offset, length, index, timestamp_ms) ==
    JDict(<< <<"fragment", fragment>>, <<"offset", JInt(offset)>>,
             <<"length", JInt(length)>>, <<"index", JInt(index)>>,
             <<"timestamp_ms", timestamp_ms>> >>)

\* A streamed item that is no string, as _sanitize_for_serialization keeps it
MessageDict == JDict(<< <<"content", JStr(<<"x">>)>> >>)

\* The outputs the async-generator wrapper stores (decorator.py lines
\* 234-260) for a stream of "ab", "c"; of "ab" and a message object; of one
\* message object; and outputs holding only items or only full_text.
StreamOutputsChoices ==
    { << <<"items", JList(<<JStr(<<"a", "b">>), JStr(<<"c">>)>>)>>,
         <<"full_text", JStr(<<"a", "b", "c">>)>>,
         <<"stream_map", JList(<<StreamEntry(JStr(<<"a", "b">>), 0, 2, 0, JInt(5)),
                                 StreamEntry(JStr(<<"c">>), 2, 1, 1, JInt(9))>>)>> >>,
      << <<"items", JList(<<JStr(<<"a", "b">>), MessageDict>>)>>,
         <<"full_text", JNull>>,
         <<"stream_map", JList(<<StreamEntry(JStr(<<"a", "b">>), 0, 2, 0, JInt(5))>>)>> >>,
      << <<"items", JList(<<MessageDict>>)>>, <<"full_text", JNull>> >>,
      << <<"items", JList(<<JStr(<<"a", "b">>), JStr(<<>>), JStr(<<"c">>)>>)>> >>,
      << <<"items", JList(<<>>)>> >>,
      << <<"full_text", JStr(<<"a", "b", "c">>)>> >> }

\* The outputs of the artifacts replayed.
OutputsChoices ==
    { <<>>,
      << <<"response", JStr("hi")>> >>,
      << <<"response", JStr("hi")>>, <<"n", JInt("1")>> >>,
      << <<"n", JNull>>, <<"response", JStr("hi")>> >> }
    \cup StreamOutputsChoices

\* A dict payload of a tool call: None, {} or a dict with entries.
EmptyDict == "{}"
FullDict  == "{...}"

\* Python truth of a payload: None and {} are false.
Truthy(v) == v \notin {None, EmptyDict, ""}

\* Python's `a or b`
PyOr(a, b) == IF Truthy(a) THEN a ELSE b

\* ToolCall, as the callers build it: the capture handlers of
\* Kurral_tester fill input/output, ArtifactGenerator fills the legacy
\* inputs/outputs.
ToolCallOf(key, style, inp, out) ==
    [tool_name |-> "get_data",
     cache_key |-> key,
     input   |-> IF style = "new" THEN inp ELSE None,
     inputs  |-> IF style = "legacy" THEN inp ELSE None,
     output  |-> IF style = "new" THEN out ELSE None,
     outputs |-> IF style = "legacy" THEN out ELSE None,
     stubbed_in_replay |-> FALSE]

PayloadPairs ==
    { <<None, None>>, <<EmptyDict, None>>, <<FullDict, None>>,
      <<None, FullDict>>, <<EmptyDict, EmptyDict>>, <<FullDict, FullDict>> }

ToolCallChoices ==
    { ToolCallOf(key, style, pp[1], pp[2]) :
        key \in {None, "k1"}, style \in {"new", "legacy"}, pp \in PayloadPairs }

ToolCallLists ==
    UNION { [1..n -> ToolCallChoices] : n \in 0..MaxToolCalls }

\* resolved_prompt.final_text of the artifacts replayed
RecordedPrompt == "Test"

\* replay(artifact) and replay(artifact, ReplayOverrides(prompt=...))
OverridesChoices ==
    { <<>> } \cup { <<[prompt |-> p]>> : p \in {None, RecordedPrompt, "different"} }

\* json.dumps(payload, sort_keys=True)
JsonDumpsSortKeys(d) == SortSeq(d, LAMBDA a, b : KeyRank(a[1]) < KeyRank(b[1]))

\* ReplayEngine._compare_outputs
CompareOutputsBug(original, replayed) ==
    JsonDumpsSortKeys(original) # JsonDumpsSortKeys(replayed)

CompareOutputs(original, replayed) ==
    JsonDumpsSortKeys(original) = JsonDumpsSortKeys(replayed)

\* ReplayEngine._calculate_diff : the keys of each partition
CalculateDiff(original, replayed) ==
    [added    |-> DictKeys(replayed) \ DictKeys(original),
     removed  |-> DictKeys(original) \ DictKeys(replayed),
     modified |-> {k \in DictKeys(replayed) \cap DictKeys(original) :
                       DictGet(original, k) # DictGet(replayed, k)}]

\* ReplayEngine._hash_payload : SHA-256 of the canonical text
HashPayload(payload) == <<"sha256", JsonDumpsSortKeys(payload)>>

\* ReplayEngine._structural_match on two values
RECURSIVE LeafMatch(_, _)
LeafMatch(o, r) ==
    IF o.t = "dict" /\ r.t = "dict"
    THEN /\ DictKeys(o.v) = DictKeys(r.v)
         /\ \A k \in DictKeys(o.v) : LeafMatch(DictGet(o.v, k), DictGet(r.v, k))
    ELSE IF o.t = "list" /\ r.t = "list"
    THEN /\ Len(o.v) = Len(r.v)
         /\ \A i \in DOMAIN o.v : LeafMatch(o.v[i], r.v[i])
    ELSE IF o.t = "null" \/ r.t = "null" THEN o.t = "null" /\ r.t = "null"
    ELSE r.t = o.t

\* ReplayEngine._structural_match on two dicts
StructuralMatch(original, replayed) ==
    /\ DictKeys(original) = DictKeys(replayed)
    /\ \A k \in DictKeys(original) :
          LeafMatch(DictGet(original, k), DictGet(replayed, k))

\* ReplayEngine._compute_validation
ComputeValidation(original, replayed, diff) ==
    [original_hash |-> HashPayload(original),
     replay_hash   |-> HashPayload(replayed),
     hash_match    |-> HashPayload(original) = HashPayload(replayed),
     structural_match |-> StructuralMatch(original, replayed),
     diff |-> diff]

\* ReplayEngine._build_tool_stub_payload : <<>> is None
BuildToolStubPayload(tc) ==
    LET output_payload == PyOr(tc.output, tc.outputs)
        input_payload  == PyOr(tc.input, tc.inputs)
    IN  IF ~Truthy(tc.cache_key) THEN <<>>
        ELSE IF output_payload = None /\ input_payload = None THEN <<>>
        ELSE << [tool_name |-> tc.tool_name,
                 input     |-> input_payload,
                 output    |-> output_payload,
                 cache_key |-> tc.cache_key] >>

\* A mistake model_copy's caller could make: set the field on the object itself.
ModelCopyInPlace(tool_call, mark) ==
    [original |-> [tool_call EXCEPT !.stubbed_in_replay = mark],
     copy     |-> [tool_call EXCEPT !.stubbed_in_replay = mark]]

\* tool_call.model_copy(update={"stubbed_in_replay": mark}): a new object
\* carries the update, the object copied is left as it was.
ModelCopy(tool_call, mark) ==
    [original |-> tool_call,
     copy     |-> [tool_call EXCEPT !.stubbed_in_replay = mark]]

\* ReplayEngine.replay, lines 75-92: the loop over artifact.tool_calls.
\* acc.calls is the artifact's own list as the loop leaves it.
RECURSIVE PrimeLoop(_, _, _, _, _)
PrimeLoop(tcs, i, acc, t, ttl) ==
    IF i > Len(tcs) THEN acc
    ELSE LET stub == BuildToolStubPayload(tcs[i])
             copied == ModelCopy(tcs[i], TRUE)
         IN  IF stub = <<>>
             THEN PrimeLoop(tcs, i + 1,
                     [acc EXCEPT !.cache_misses = @ + 1,
                                 !.stubbed = Append(@, tcs[i]),
                                 !.calls = Append(@, tcs[i])], t, ttl)
             ELSE PrimeLoop(tcs, i + 1,
                     [cache |-> StorePut(acc.cache, tcs[i].cache_key,
                                   [response |-> stub[1],
                                    expires_at |-> ExpiresAt(t, ttl)]),
                      cache_hits |-> acc.cache_hits + 1,
                      cache_misses |-> acc.cache_misses,
                      stubbed |-> Append(acc.stubbed, copied.copy),
                      calls |-> Append(acc.calls, copied.original)],
                     t, ttl)

\* outputs.get(key)
DictGetOrNone(d, k) == IF k \in DictKeys(d) THEN DictGet(d, k) ELSE JNull

\* "".join(items): TypeError on the first item that is no str
RECURSIVE JoinItems(_)
JoinItems(items) ==
    IF items = <<>> THEN [raised |-> None, text |-> <<>>]
    ELSE IF Head(items).t # "str" THEN [raised |-> "TypeError", text |-> <<>>]
    ELSE LET rest == JoinItems(Tail(items))
         IN  [rest EXCEPT !.text = Head(items).v \o @]

\* fragment or ""
FragmentStr(fragment) ==
    IF fragment.t = "null" \/ fragment.v = <<>> THEN JStr(<<>>) ELSE fragment

\* len(fragment_str): characters of a str, keys of a dict
FragmentLen(fragment_str) == Len(fragment_str.v)

\* lines 398-410: the loop that synthesizes the stream map
RECURSIVE SynthesizeFrom(_, _, _)
SynthesizeFrom(items, index, offset) ==
    IF index > Len(items) THEN <<>>
    ELSE LET fragment_str == FragmentStr(items[index])
             length == FragmentLen(fragment_str)
         IN  <<StreamEntry(fragment_str, offset, length, index - 1, JNull)>>
             \o SynthesizeFrom(items, index + 1, offset + length)

\* ReplayEngine._reconstruct_output_stream: value <<>> is None
ReconstructOutputStream(outputs) ==
    LET items0 == DictGetOrNone(outputs, "items")
        full_text0 == DictGetOrNone(outputs, "full_text")
        stream_map0 == DictGetOrNone(outputs, "stream_map")
        items == IF items0.t = "null" /\ full_text0.t = "str"
                 THEN JList(<<full_text0>>) ELSE items0
        joins == full_text0.t = "null" /\ items.t = "list"
        joined == JoinItems(items.v)
        full_text == IF joins THEN JStr(joined.text) ELSE full_text0
        stream_map == IF stream_map0.t = "null" /\ items.t = "list"
                      THEN JList(SynthesizeFrom(items.v, 1, 0)) ELSE stream_map0
    IN  IF joins /\ joined.raised # None
        THEN [raised |-> joined.raised, value |-> <<>>]
        ELSE IF items.t = "null" /\ full_text.t = "null"
        THEN [raised |-> None, value |-> <<>>]
        ELSE [raised |-> None,
              value |-> <<[items |-> items, full_text |-> full_text,
                           stream_map |-> stream_map]>>]

\* ReplayEngine.replay, lines 94-110: the outputs returned.  With overrides
\* they are artifact.outputs.copy(); without, artifact.outputs itself.
ReplayedOutputs(a, ov) == a.outputs

\* ReplayEngine.replay
Replay(ov) ==
    /\ rpc = "ready"
    /\ LET loop == PrimeLoop(artifact.tool_calls, 1,
                      [cache |-> store, cache_hits |-> 0, cache_misses |-> 0,
                       stubbed |-> <<>>, calls |-> <<>>], now, ttl_seconds)
           outputs == ReplayedOutputs(artifact, ov)
           match == CompareOutputs(artifact.outputs, outputs)
           diff == IF match THEN <<>>
                   ELSE <<CalculateDiff(artifact.outputs, outputs)>>
           stream_data == ReconstructOutputStream(artifact.outputs)
       IN  /\ result' =
                IF stream_data.raised # None THEN [raised |-> stream_data.raised]
                ELSE    [outputs |-> outputs,
                         match |-> match,
                         diff |-> diff,
                         tool_calls |-> IF loop.stubbed # <<>> THEN loop.stubbed
                                        ELSE loop.calls,
                         cache_hits |-> loop.cache_hits,
                         cache_misses |-> loop.cache_misses,
                         stream |-> stream_data.value,
                         validation |-> ComputeValidation(artifact.outputs,
                                                          outputs, diff),
                         raised |-> None]
           /\ store' = loop.cache
           /\ artifact' = [artifact EXCEPT !.tool_calls = loop.calls]
    /\ overrides' = ov
    /\ rpc' = "done"
    /\ UNCHANGED notReplayVars

DoReplay == \E ov \in OverridesChoices : Replay(ov)

NextReplay == DoReplay

InitReplay ==
    /\ CacheIdle
    /\ ThreadsIdle
    /\ InterceptIdle
    /\ CaptureIdle
    /\ ExtIdle
    /\ artifact \in [outputs : OutputsChoices,
                     prompt : {RecordedPrompt},
                     tool_calls : ToolCallLists]
    /\ overrides = <<>>
    /\ result = <<>>
    /\ rpc = "ready"

SpecReplay == InitReplay /\ [][NextReplay]_vars

\* C1: for every artifact A, replay(A) with no overrides returns outputs equal
\* to A.outputs, match true, diff None, validation.hash_match true and
\* validation.structural_match true.
C1_CanonicalReplay ==
    rpc = "done" /\ overrides = <<>> =>
        /\ result.raised = None
        /\ result.outputs = artifact.outputs
        /\ result.match = TRUE
        /\ result.diff = <<>>
        /\ result.validation.hash_match = TRUE
        /\ result.validation.structural_match = TRUE

\* C1 witness: an artifact with two outputs keys, one of them null, and tool
\* calls has been replayed without overrides.
C1_Witness ==
    /\ rpc = "done"
    /\ overrides = <<>>
    /\ result.raised = None
    /\ Len(artifact.outputs) = 2
    /\ Len(artifact.tool_calls) > 0
    /\ result.match = TRUE
    /\ result.validation.structural_match = TRUE

\* C2: replaying an artifact with a prompt override that differs from the
\* recorded prompt yields match false, validation.hash_match false and a diff
\* whose `modified` partition holds at least one key.
C2_PromptOverrideDiverges ==
    rpc = "done" /\ overrides # <<>> /\ result.raised = None =>
        (overrides[1].prompt = "different" /\ artifact.prompt # "different" =>
            /\ result.match = FALSE
            /\ result.validation.hash_match = FALSE
            /\ result.diff # <<>>
            /\ result.diff[1].modified # {})

\* A tool call the claim counts as a hit: it has a cache_key and a non-null
\* input or output.
HasReplayablePayload(tc) ==
    /\ tc.cache_key # None
    /\ \/ tc.input # None \/ tc.inputs # None
       \/ tc.output # None \/ tc.outputs # None

\* C3: replay never aborts because of a tool call and reports
\* cache_hits + cache_misses = number of tool calls; the result's tool_calls
\* has the length and order of the artifact's; tool call i is a hit, returned
\* with stubbed_in_replay true and with a stub primed under its cache_key,
\* exactly when it has a cache_key and a non-null input or output; every other
\* tool call is a miss and returned without the mark.
C3_ToolCallsStubbed ==
    rpc = "done" /\ result.raised # "TypeError" =>
        LET tcs == artifact.tool_calls
            hits == {i \in DOMAIN tcs : HasReplayablePayload(tcs[i])}
        IN  /\ result.raised = None
            /\ result.cache_hits + result.cache_misses = Len(tcs)
            /\ Len(result.tool_calls) = Len(tcs)
            /\ result.cache_hits = Cardinality(hits)
            /\ \A i \in DOMAIN tcs :
                  /\ result.tool_calls[i].stubbed_in_replay = (i \in hits)
                  /\ [result.tool_calls[i] EXCEPT !.stubbed_in_replay = FALSE] = tcs[i]
                  /\ (i \in hits) = (tcs[i].cache_key \in DOMAIN store)

\* The sum of the lengths of the items before item i
RECURSIVE LengthsBefore(_, _)
LengthsBefore(items, i) ==
    IF i <= 1 THEN 0 ELSE Len(items[i - 1].v) + LengthsBefore(items, i - 1)

\* The concatenation of the items
RECURSIVE Concatenation(_)
Concatenation(items) ==
    IF items = <<>> THEN <<>> ELSE Head(items).v \o Concatenation(Tail(items))

\* C22: the stream reconstruction of replay returns the recorded stream_map
\* unchanged when outputs contain one; when only items are present it
\* synthesizes one entry per item, in order, with index i, offset the sum of
\* the preceding lengths and a null timestamp, and sets full_text to the
\* concatenation of the items; when only full_text is present it returns a
\* single entry with offset 0 and length len(full_text); when neither items
\* nor full_text is present it returns null.
C22_StreamReconstruction ==
    rpc = "done" =>
        LET items == DictGetOrNone(artifact.outputs, "items")
            full_text == DictGetOrNone(artifact.outputs, "full_text")
            stream_map == DictGetOrNone(artifact.outputs, "stream_map")
        IN  /\ result.raised = None
            /\ stream_map.t # "null" =>
                  /\ result.stream # <<>>
                  /\ result.stream[1].stream_map = stream_map
            /\ (items.t = "list" /\ full_text.t = "null" /\ stream_map.t = "null") =>
                  /\ result.stream # <<>>
                  /\ result.stream[1].stream_map =
                        JList([i \in DOMAIN items.v |->
                                 StreamEntry(items.v[i], LengthsBefore(items.v, i),
                                             Len(items.v[i].v), i - 1, JNull)])
                  /\ result.stream[1].full_text = JStr(Concatenation(items.v))
            /\ (items.t = "null" /\ full_text.t = "str" /\ stream_map.t = "null") =>
                  /\ result.stream # <<>>
                  /\ result.stream[1].stream_map =
                        JList(<<StreamEntry(full_text, 0, Len(full_text.v), 0, JNull)>>)
            /\ (items.t = "null" /\ full_text.t = "null" /\ stream_map.t = "null") =>
                  result.stream = <<>>

\* C30: replay leaves the artifact it is given unchanged: after any replay,
\* with or without overrides, artifact.outputs and every field of every
\* artifact.tool_calls[i], stubbed_in_replay among them, are what they were
\* before the call.
C30_ReplayLeavesArtifactUnchanged ==
    [][rpc = "ready" /\ rpc' = "done" => artifact' = artifact]_vars

\* C30 witness: a replay with overrides has returned a tool call marked
\* stubbed_in_replay whose original in the artifact is not marked.
C30_Witness ==
    /\ rpc = "done"
    /\ overrides # <<>>
    /\ result.raised = None
    /\ artifact.outputs # <<>>
    /\ \E i \in DOMAIN artifact.tool_calls :
          /\ result.tool_calls[i].stubbed_in_replay = TRUE
          /\ artifact.tool_calls[i].stubbed_in_replay = FALSE

-----------------------------------------------------------------------------
(***************************************************************************)
(* Kurral_tester/write_side_effect_interceptor.py                          *)
(***************************************************************************)

\* Bound of the interceptor model: the deepest nesting of scopes.
MaxScopes == 3

\* _stub_open: write_modes
write_modes == {"w", "a", "x", "w+", "a+", "x+",
                "wb", "ab", "xb", "w+b", "a+b", "x+b"}

\* Further modes open() accepts that write, append or create: the same letters
\* with 't', or with 'b' and '+' the other way round.
OtherWritingModes == {"wt", "at", "xt", "wb+", "w+t"}

ReadOnlyModes == {"r", "rb", "rt"}

OpenModes == write_modes \cup OtherWritingModes \cup ReadOnlyModes

EnvNames == {"API_KEY", "MODE"}

\* WriteSideEffectInterceptor.activate
Activate ==
    IF ic.active THEN ic' = ic /\ patched' = patched
    ELSE /\ ic' = [original_smtp_ssl |-> patched.SMTP_SSL,
                   original_smtp |-> patched.SMTP,
                   original_open |-> patched.open,
                   original_environ_setitem |-> patched.environ_setitem,
                   active |-> TRUE]
         /\ patched' = [SMTP_SSL |-> "stub", SMTP |-> "stub",
                        open |-> "stub", environ_setitem |-> "stub"]

\* WriteSideEffectInterceptor.deactivate: SMTP_SSL, SMTP and open get the saved
\* originals back; line 127 assigns self._stub_environ_setitem to
\* os.environ.__setitem__.
Deactivate ==
    IF ~ic.active THEN ic' = ic /\ patched' = patched
    ELSE /\ patched' = [SMTP_SSL |-> IF ic.original_smtp_ssl # None
                                     THEN ic.original_smtp_ssl ELSE patched.SMTP_SSL,
                        SMTP |-> IF ic.original_smtp # None
                                 THEN ic.original_smtp ELSE patched.SMTP,
                        open |-> IF ic.original_open # None
                                 THEN ic.original_open ELSE patched.open,
                        environ_setitem |-> IF ic.original_environ_setitem # None
                                            THEN "stub" ELSE patched.environ_setitem]
         /\ ic' = [ic EXCEPT !.active = FALSE]

\* `with write_interception():` / `with _interceptor.intercept():` entered,
\* or activate_write_interception() called.
EnterScope ==
    /\ scopes < MaxScopes
    /\ Activate
    /\ scopes' = scopes + 1
    /\ before' = IF scopes = 0 THEN patched ELSE before
    /\ lastCall' = [op |-> "enter", arg |-> None, active |-> ic.active,
                    reached |-> "none", scopes_left |-> scopes + 1]
    /\ UNCHANGED world
    /\ UNCHANGED notInterceptVars

\* The scope is left, by falling off its end or by an exception passing
\* through: both run the `finally: self.deactivate()` of intercept().
ExitScope(how) ==
    /\ scopes > 0
    /\ Deactivate
    /\ scopes' = scopes - 1
    /\ lastCall' = [op |-> "exit", arg |-> how, active |-> ic.active,
                    reached |-> "none", scopes_left |-> scopes - 1]
    /\ UNCHANGED <<before, world>>
    /\ UNCHANGED notInterceptVars

\* open(file, mode) by the code under replay: builtins.open is the library's
\* or _stub_open, which hands a MockFile for a mode in write_modes and calls
\* self.original_open otherwise.  What is written to a real file opened in a
\* writing mode reaches the disk; MockFile.write/writelines/flush/close do
\* nothing.
OpenCall(mode) ==
    /\ LET real == \/ patched.open = "original"
                   \/ mode \notin write_modes
       IN  /\ lastCall' = [op |-> "open", arg |-> mode, active |-> ic.active,
                           reached |-> IF real THEN "real" ELSE "MockFile",
                           scopes_left |-> scopes]
           /\ world' = [world EXCEPT !.file_written =
                           @ \/ (real /\ mode \notin ReadOnlyModes)]
    /\ UNCHANGED <<patched, ic, scopes, before>>
    /\ UNCHANGED notInterceptVars

\* smtplib.SMTP_SSL(host, port) or smtplib.SMTP(host, port), then login and
\* send_message / sendmail: MockSMTP sends nothing.
SmtpCall(cls) ==
    /\ LET real == patched[cls] = "original"
       IN  /\ lastCall' = [op |-> "smtp", arg |-> cls, active |-> ic.active,
                           reached |-> IF real THEN "real" ELSE "MockSMTP",
                           scopes_left |-> scopes]
           /\ world' = [world EXCEPT !.mail_sent = @ \/ real]
    /\ UNCHANGED <<patched, ic, scopes, before>>
    /\ UNCHANGED notInterceptVars

\* os.environ.__setitem__(key, value) called by name: the attribute is the
\* library's bound method or _stub_environ_setitem, which drops the write.
EnvSetitemCall(name) ==
    /\ LET real == patched.environ_setitem = "original"
       IN  /\ lastCall' = [op |-> "env", arg |-> name, active |-> ic.active,
                           reached |-> IF real THEN "real" ELSE "stub",
                           scopes_left |-> scopes]
           /\ world' = [world EXCEPT !.env =
                           IF real THEN @ \cup {name} ELSE @]
    /\ UNCHANGED <<patched, ic, scopes, before>>
    /\ UNCHANGED notInterceptVars

\* os.environ[key] = value: the statement looks __setitem__ up on the type of
\* os.environ, never on the instance, so the attribute that activate() set on
\* the instance is not consulted and the variable is set.
EnvAssign(name) ==
    /\ lastCall' = [op |-> "env", arg |-> name, active |-> ic.active,
                    reached |-> "real", scopes_left |-> scopes]
    /\ world' = [world EXCEPT !.env = @ \cup {name}]
    /\ UNCHANGED <<patched, ic, scopes, before>>
    /\ UNCHANGED notInterceptVars

DoExitScope == \E how \in {"normal", "exception"} : ExitScope(how)
DoOpen == \E mode \in OpenModes : OpenCall(mode)
DoSmtp == \E cls \in {"SMTP_SSL", "SMTP"} : SmtpCall(cls)
DoEnvSetitem == \E name \in EnvNames : EnvSetitemCall(name)
DoEnvAssign == \E name \in EnvNames : EnvAssign(name)

NextIntercept ==
    \/ EnterScope \/ DoExitScope \/ DoOpen \/ DoSmtp
    \/ DoEnvSetitem \/ DoEnvAssign

InitIntercept ==
    /\ CacheIdle
    /\ ThreadsIdle
    /\ ReplayIdle
    /\ InterceptIdle
    /\ CaptureIdle
    /\ ExtIdle

SpecIntercept == InitIntercept /\ [][NextIntercept]_vars

\* C6: after an interception scope ends, normally or through an exception,
\* every patched target - smtplib.SMTP_SSL, smtplib.SMTP, builtins.open and
\* os.environ.__setitem__ - is bound again to the value it had before
\* activation.
C6_OriginalsRestored ==
    lastCall.op = "exit" /\ scopes = 0 => patched = before

\* C7: interception scopes nest and are reference-counted: interception is
\* active as long as at least one entered scope has not exited, and the
\* originals are restored only when the outermost scope exits.
C7_ScopesReferenceCounted ==
    /\ scopes > 0 => ic.active /\ patched.open = "stub" /\ patched.SMTP_SSL = "stub"
    /\ lastCall.op = "exit" /\ scopes > 0 => patched.open = "stub"

\* C8: while an interception scope is active, opening a file in any write,
\* append or exclusive-creation mode (with or without '+', 'b' or 't') never
\* reaches the real open and returns an object whose write/close do nothing;
\* a read-only mode is passed through to the original open; the SMTP calls
\* send nothing; an environment-variable assignment leaves the environment
\* unchanged.
C8_WritesBlockedWhileActive ==
    lastCall.active =>
        /\ lastCall.op = "open" /\ lastCall.arg \notin ReadOnlyModes
              => lastCall.reached = "MockFile"
        /\ lastCall.op = "open" /\ lastCall.arg \in ReadOnlyModes
              => lastCall.reached = "real"
        /\ lastCall.op = "smtp" => lastCall.reached = "MockSMTP"
        /\ lastCall.op = "env" => lastCall.reached = "stub"

-----------------------------------------------------------------------------
(***************************************************************************)
(* kurral/core/decorator.py : trace_llm and _generate_and_export_artifact  *)
(*                                                                         *)
(* A string fragment is the sequence of its characters.  An exception is a *)
(* record of its type and message; str(exc) is the message.                *)
(***************************************************************************)

\* Bounds of the capture model: the longest stream, and how many of its first
\* items range over every kind of item (the later ones are TailItem).
MaxItems == 102
FreeItems == 2

\* async_gen_wrapper: max_items_to_store = 100
max_items_to_store == 100

StrItem(text) == [kind |-> "str", text |-> text]
ObjItem == [kind |-> "obj", text |-> <<>>]

\* What the agent may yield: a two-character fragment, the empty string, an
\* object that is no string.
ItemChoices == {StrItem(<<"a", "b">>), StrItem(<<>>), ObjItem}
TailItem == StrItem(<<"c">>)

AgentErrors == {[type |-> "ValueError", msg |-> "boom"],
                [type |-> "RuntimeError", msg |-> ""]}
ExportError == [type |-> "OSError", msg |-> "disk full"]
AgentResults == {"answer"}

WrapperKinds == {"sync", "async", "asyncgen"}

\* config.storage_backend (any string: config.py declares it str, with no
\* validator), with export_path standing for an explicit export_path, custom
\* for config.custom_bucket_enabled and other for a name no branch handles
StorageChoices == {"export_path", "memory", "local", "api", "custom", "r2", "other"}

\* What fails while an artifact is exported: the configured backend, the
\* local filesystem.
FailChoices == [backend : BOOLEAN, local : BOOLEAN]

\* str(exc)
StrOfExc(e) == e.msg

\* How a running async generator is stopped from outside: task.cancel(msg)
\* raises CancelledError(msg) in it, aclose() raises GeneratorExit.
Cancellations ==
    { [type |-> "CancelledError", msg |-> "cancelled by caller"],
      [type |-> "GeneratorExit", msg |-> ""] }

\* The first n elements of a sequence: seq[:n]
Take(seq, n) == SubSeq(seq, 1, IF Len(seq) < n THEN Len(seq) ELSE n)

\* "".join(items)
RECURSIVE Join(_)
Join(items) ==
    IF items = <<>> THEN <<>> ELSE Head(items).text \o Join(Tail(items))

\* _generate_and_export_artifact, lines 975-1091: where the artifact ends up
\* ("none" when nowhere) and whether the call raises.  An explicit
\* export_path and the local backend save without a try; the memory backend
\* swallows its failure; api, custom bucket and r2 fall back to a local save;
\* a backend name that no branch handles saves nowhere.
ExportTo(storage, fail) ==
    IF storage \in {"export_path", "local"}
    THEN [where |-> IF fail.local THEN "none" ELSE "local", raised |-> fail.local]
    ELSE IF storage = "memory"
    THEN [where |-> IF fail.backend THEN "none" ELSE "memory", raised |-> FALSE]
    ELSE IF storage = "other"
    THEN [where |-> "none", raised |-> FALSE]
    ELSE IF ~fail.backend
    THEN [where |-> storage, raised |-> FALSE]
    ELSE [where |-> IF fail.local THEN "none" ELSE "local", raised |-> fail.local]

\* One call of _generate_and_export_artifact: what was configured, what
\* failed, where the artifact went and whether the call raised.
ExportCall(storage, fail) ==
    <<[storage |-> storage, fail |-> fail,
       where |-> ExportTo(storage, fail).where,
       raised |-> ExportTo(storage, fail).raised]>>

\* generator.generate(..., outputs=context.outputs, error=context.error)
ArtifactOf(outputs, error) == [outputs |-> outputs, error |-> error]

\* `stored` after one call of _generate_and_export_artifact
StoredAfter(st, storage, fail, outputs, error) ==
    IF ExportTo(storage, fail).where = "none" THEN st
    ELSE Append(st, [where |-> ExportTo(storage, fail).where,
                     artifact |-> ArtifactOf(outputs, error)])

\* async_gen_wrapper, lines 222-262: context.outputs
StreamOutputs(c) ==
    LET oc == c.outputs_collected
        all_str == \A i \in DOMAIN oc : oc[i].kind = "str"
        full_output == IF oc # <<>> /\ all_str THEN Join(oc) ELSE <<>>
    IN  [kind |-> "stream",
         items |-> Take(oc, max_items_to_store),
         total_items |-> Len(oc),
         truncated |-> Len(oc) > max_items_to_store,
         full_text |-> IF full_output # <<>> THEN <<full_output>> ELSE <<>>,
         has_stream_map |-> c.stream_map # <<>>,
         stream_map |-> Take(c.stream_map, max_items_to_store),
         stream_map_truncated |-> Len(c.stream_map) > max_items_to_store,
         error |-> IF c.generator_error # NoExc
                   THEN <<StrOfExc(c.generator_error)>> ELSE <<>>]

\* wrapper / async_wrapper, lines 329-363 and 391-425.  The agent returns or
\* raises; the export at the end of the try block may raise, and then the
\* except block takes it for the agent's exception and exports again.
WrapperRun(agent, fail1, fail2) ==
    /\ cfg.kind \in {"sync", "async"}
    /\ cap.pc = "call"
    /\ LET returned == agent.kind = "returned"
           outputs1 == IF returned THEN [kind |-> "result", result |-> agent.value]
                       ELSE [kind |-> "empty"]
           try_export == returned /\ cfg.auto_export
           ex1 == ExportTo(cfg.storage, fail1)
           st1 == IF try_export
                  THEN StoredAfter(stored, cfg.storage, fail1, outputs1, <<>>)
                  ELSE stored
           in_except == ~returned \/ (try_export /\ ex1.raised)
           e == IF returned THEN ExportError ELSE agent.exc
           ex2 == ExportTo(cfg.storage, fail2)
           st2 == IF in_except /\ cfg.auto_export
                  THEN StoredAfter(st1, cfg.storage, fail2, outputs1, <<StrOfExc(e)>>)
                  ELSE st1
       IN  /\ stored' = st2
           /\ cap' = [cap EXCEPT
                        !.pc = "done",
                        !.agent_calls = @ + 1,
                        !.agent_exc = IF returned THEN NoExc ELSE agent.exc,
                        !.error = IF in_except THEN <<StrOfExc(e)>> ELSE <<>>,
                        !.export_attempts =
                            (IF try_export THEN 1 ELSE 0)
                            + (IF in_except /\ cfg.auto_export THEN 1 ELSE 0),
                        !.last_export =
                            IF in_except /\ cfg.auto_export
                            THEN ExportCall(cfg.storage, fail2)
                            ELSE IF try_export THEN ExportCall(cfg.storage, fail1)
                            ELSE @]
           /\ outcome' =
                IF ~in_except
                THEN [kind |-> "returned", value |-> agent.value, exc |-> NoExc]
                ELSE IF cfg.auto_export /\ ex2.raised
                THEN [kind |-> "raised", value |-> None, exc |-> ExportError]
                ELSE [kind |-> "raised", value |-> None, exc |-> e]
    /\ UNCHANGED cfg
    /\ UNCHANGED notCaptureVars

\* async_gen_wrapper, lines 185-210: the agent yields one more item.
GenYield(item) ==
    /\ cfg.kind = "asyncgen"
    /\ cap.pc \in {"call", "streaming"}
    /\ Len(cap.outputs_collected) < MaxItems
    /\ Len(cap.outputs_collected) >= FreeItems => item = TailItem
    /\ cap' = [cap EXCEPT
                 !.pc = "streaming",
                 !.agent_calls = 1,
                 !.outputs_collected = Append(@, item),
                 !.stream_map =
                     IF item.kind = "str"
                     THEN Append(@, [fragment |-> item.text,
                                     offset |-> cap.current_offset,
                                     length |-> Len(item.text),
                                     index |-> cap.idx])
                     ELSE @,
                 !.current_offset =
                     IF item.kind = "str" THEN @ + Len(item.text) ELSE @,
                 !.idx = @ + 1]
    /\ UNCHANGED <<cfg, stored, outcome>>
    /\ UNCHANGED notCaptureVars

\* async_gen_wrapper: the agent's generator is exhausted.
GenFinish ==
    /\ cfg.kind = "asyncgen"
    /\ cap.pc \in {"call", "streaming"}
    /\ cap' = [cap EXCEPT !.pc = "finally", !.agent_calls = 1]
    /\ UNCHANGED <<cfg, stored, outcome>>
    /\ UNCHANGED notCaptureVars

\* async_gen_wrapper, lines 212-215: the agent raises.
GenRaise(e) ==
    /\ cfg.kind = "asyncgen"
    /\ cap.pc \in {"call", "streaming"}
    /\ cap' = [cap EXCEPT !.pc = "finally", !.agent_calls = 1,
                          !.generator_error = e,
                          !.agent_exc = e,
                          !.error = <<StrOfExc(e)>>]
    /\ UNCHANGED <<cfg, stored, outcome>>
    /\ UNCHANGED notCaptureVars

\* async_gen_wrapper: the wrapper is cancelled while it waits for the agent
\* (CancelledError), or closed while it is suspended at its yield
\* (GeneratorExit).  Neither is an Exception, so the except clause of line 212
\* is passed over and the finally block runs next.
GenCancel(c) ==
    /\ cfg.kind = "asyncgen"
    /\ cap.pc \in {"call", "streaming"}
    /\ c.type = "GeneratorExit" => cap.pc = "streaming"
    /\ cap' = [cap EXCEPT !.pc = "finally", !.agent_calls = 1, !.cancelled = c]
    /\ UNCHANGED <<cfg, stored, outcome>>
    /\ UNCHANGED notCaptureVars

\* async_gen_wrapper, lines 217-304: the finally block.  The enrichment
\* thread is started when LangSmith is enabled with an API key and the export
\* returned a path; the exception in flight, if any, goes on to the caller.
GenFinally(fail) ==
    /\ cfg.kind = "asyncgen"
    /\ cap.pc = "finally"
    /\ LET outputs == StreamOutputs(cap)
           ex == ExportTo(cfg.storage, fail)
       IN  /\ stored' = IF cfg.auto_export
                        THEN StoredAfter(stored, cfg.storage, fail, outputs, cap.error)
                        ELSE stored
           /\ cap' = [cap EXCEPT !.pc = "done",
                                 !.export_attempts = IF cfg.auto_export THEN 1 ELSE 0,
                                 !.last_export =
                                     IF cfg.auto_export
                                     THEN ExportCall(cfg.storage, fail) ELSE @,
                                 !.enrichment_started =
                                     /\ cfg.auto_export
                                     /\ ~ex.raised
                                     /\ cfg.langsmith
                                     /\ ex.where # "none"]
           /\ outcome' =
                IF cfg.auto_export /\ ex.raised
                THEN [kind |-> "raised", value |-> None, exc |-> ExportError]
                ELSE IF cap.generator_error # NoExc
                THEN [kind |-> "raised", value |-> None, exc |-> cap.generator_error]
                ELSE IF cap.cancelled # NoExc
                THEN [kind |-> "raised", value |-> None, exc |-> cap.cancelled]
                ELSE [kind |-> "returned", value |-> None, exc |-> NoExc]
    /\ UNCHANGED cfg
    /\ UNCHANGED notCaptureVars

AgentOutcomes ==
    { [kind |-> "returned", value |-> r, exc |-> NoExc] : r \in AgentResults }
    \cup { [kind |-> "raised", value |-> None, exc |-> e] : e \in AgentErrors }

DoWrapperRun ==
    \E agent \in AgentOutcomes, fail1 \in FailChoices, fail2 \in FailChoices :
        WrapperRun(agent, fail1, fail2)
DoGenYield == \E item \in ItemChoices \cup {TailItem} : GenYield(item)
DoGenRaise == \E e \in AgentErrors : GenRaise(e)
DoGenFinally == \E fail \in FailChoices : GenFinally(fail)
DoGenCancel == \E c \in Cancellations : GenCancel(c)

NextCapture ==
    DoWrapperRun \/ DoGenYield \/ GenFinish \/ DoGenRaise \/ DoGenFinally \/ DoGenCancel

InitCapture ==
    /\ CacheIdle
    /\ ThreadsIdle
    /\ ReplayIdle
    /\ InterceptIdle
    /\ ExtIdle
    /\ cfg \in [kind : WrapperKinds, auto_export : BOOLEAN, storage : StorageChoices,
                 langsmith : BOOLEAN]
    /\ cap = CapStart
    /\ stored = <<>>
    /\ outcome = NoOutcome

SpecCapture == InitCapture /\ [][NextCapture]_vars

\* C4: with auto_export on, when the wrapped agent raises E, an artifact with
\* error = str(E) has been exported by the time the wrapper raises, and the
\* exception the wrapper raises is E.
C4_ErrorArtifactThenSameException ==
    (cfg.auto_export /\ cap.pc = "done" /\ cap.agent_exc # NoExc)
        => /\ \E i \in DOMAIN stored :
                stored[i].artifact.error = <<StrOfExc(cap.agent_exc)>>
           /\ outcome.kind = "raised"
           /\ outcome.exc = cap.agent_exc

\* C27: when the wrapped agent returns normally, the sync and async wrappers
\* call the agent exactly once, attempt the artifact export at most once and
\* return the agent's result to the caller, whether the export succeeds or
\* raises.
C27_NormalReturnSurvivesExport ==
    (cfg.kind \in {"sync", "async"} /\ cap.pc = "done" /\ cap.agent_exc = NoExc)
        => /\ cap.agent_calls = 1
           /\ cap.export_attempts <= 1
           /\ outcome.kind = "returned"
           /\ outcome.value \in AgentResults

\* C19: whenever the configured backend (memory, api, custom bucket or r2)
\* fails while the local filesystem works, _generate_and_export_artifact
\* stores the artifact locally, returns the local path and raises nothing.
C19_BackendFailureFallsBackToLocal ==
    \A i \in DOMAIN cap.last_export :
        LET call == cap.last_export[i]
        IN  (/\ call.storage \in {"memory", "api", "custom", "r2"}
             /\ call.fail.backend
             /\ ~call.fail.local)
                => /\ call.where = "local"
                   /\ ~call.raised
                   /\ \E n \in DOMAIN stored : stored[n].where = "local"

\* C20: when the async-generator wrapper is cancelled or closed mid-stream with
\* auto_export on, an export is attempted, every artifact stored carries the
\* cancellation reason as its error, and no enrichment thread is started.
C20_CancelledRunExportsWithReason ==
    (cfg.kind = "asyncgen" /\ cfg.auto_export /\ cap.pc = "done" /\ cap.cancelled # NoExc)
        => /\ cap.export_attempts = 1
           /\ \A n \in DOMAIN stored :
                  stored[n].artifact.error = <<StrOfExc(cap.cancelled)>>
           /\ ~cap.enrichment_started

RECURSIVE SumLengths(_)
SumLengths(entries) ==
    IF entries = <<>> THEN 0
    ELSE Head(entries).length + SumLengths(Tail(entries))

\* C5: in every artifact of the async-generator path whose outputs hold a
\* stream_map, the entries' lengths sum to len(full_text), every entry's
\* offset is the sum of the lengths before it, and offsets strictly increase.
C5_StreamMapIntegrity ==
    \A n \in DOMAIN stored :
        LET o == stored[n].artifact.outputs
        IN  (o.kind = "stream" /\ o.has_stream_map)
                => /\ o.full_text # <<>>
                   /\ SumLengths(o.stream_map) = Len(o.full_text[1])
                   /\ \A i \in DOMAIN o.stream_map :
                        o.stream_map[i].offset
                            = SumLengths(SubSeq(o.stream_map, 1, i - 1))
                   /\ \A i \in DOMAIN o.stream_map : \A j \in DOMAIN o.stream_map :
                        i < j => o.stream_map[i].offset < o.stream_map[j].offset

-----------------------------------------------------------------------------
(***************************************************************************)
(* Python float arithmetic (IEEE 754 binary64, round to nearest even), as  *)
(* far as determinism.py and ars.py use it: int / int, float * float and   *)
(* float + float on values that are not negative.                          *)
(*                                                                         *)
(* A natural number is the sequence of its digits in base 2^15, least      *)
(* significant first, without leading zeros.  A float is [m, e], standing  *)
(* for m * 2^e, with m a number of exactly 53 bits, or zero (m empty).     *)
(***************************************************************************)

LimbBits == 10 + 5
Base == 2^LimbBits
MantBits == 50 + 3

RECURSIVE BigNorm(_)
BigNorm(x) ==
    IF x = <<>> THEN <<>>
    ELSE IF x[Len(x)] = 0 THEN BigNorm(SubSeq(x, 1, Len(x) - 1))
    ELSE x

BigOfInt(n) ==
    BigNorm(<<n % Base, (n \div Base) % Base, n \div (Base * Base)>>)

Limb(x, i) == IF i \in DOMAIN x THEN x[i] ELSE 0

RECURSIVE BigAddC(_, _, _, _)
BigAddC(x, y, i, carry) ==
    IF i > Len(x) /\ i > Len(y)
    THEN IF carry = 0 THEN <<>> ELSE <<carry>>
    ELSE <<(Limb(x, i) + Limb(y, i) + carry) % Base>>
            \o BigAddC(x, y, i + 1, (Limb(x, i) + Limb(y, i) + carry) \div Base)

BigAdd(x, y) == BigAddC(x, y, 1, 0)

RECURSIVE BigMulSmallC(_, _, _, _)
BigMulSmallC(x, k, i, carry) ==
    IF i > Len(x)
    THEN IF carry = 0 THEN <<>> ELSE <<carry>>
    ELSE <<(x[i] * k + carry) % Base>>
            \o BigMulSmallC(x, k, i + 1, (x[i] * k + carry) \div Base)

\* x * k, for 0 <= k < Base
BigMulSmall(x, k) == BigNorm(BigMulSmallC(x, k, 1, 0))

Zeros(n) == [i \in 1..n |-> 0]

RECURSIVE BigMulFrom(_, _, _)
BigMulFrom(x, y, i) ==
    IF i > Len(y) THEN <<>>
    ELSE BigAdd(BigNorm(Zeros(i - 1) \o BigMulSmall(x, y[i])), BigMulFrom(x, y, i + 1))

BigMul(x, y) == BigMulFrom(x, y, 1)

\* x * 2^n
BigShl(x, n) ==
    BigNorm(Zeros(n \div LimbBits) \o BigMulSmall(x, 2^(n % LimbBits)))

\* floor(x / 2^n)
BigShr(x, n) ==
    LET k == n \div LimbBits
        sh == n % LimbBits
    IN  BigNorm([i \in 1..(IF Len(x) > k THEN Len(x) - k ELSE 0) |->
                    (x[i + k] \div 2^sh)
                    + (Limb(x, i + k + 1) % 2^sh) * 2^(LimbBits - sh)])

\* bit n of x (bit 0 is the least significant)
BitAt(x, n) == (Limb(x, n \div LimbBits + 1) \div 2^(n % LimbBits)) % 2

\* x mod 2^n # 0
LowBitsSet(x, n) ==
    \/ \E i \in 1..(n \div LimbBits) : Limb(x, i) # 0
    \/ Limb(x, n \div LimbBits + 1) % 2^(n % LimbBits) # 0

RECURSIVE IntBitLen(_)
IntBitLen(n) == IF n = 0 THEN 0 ELSE 1 + IntBitLen(n \div 2)

BigBitLen(x) ==
    IF x = <<>> THEN 0 ELSE LimbBits * (Len(x) - 1) + IntBitLen(x[Len(x)])

RECURSIVE BigLessFrom(_, _, _)
BigLessFrom(x, y, i) ==
    IF i = 0 THEN FALSE
    ELSE IF x[i] # y[i] THEN x[i] < y[i]
    ELSE BigLessFrom(x, y, i - 1)

BigLess(x, y) ==
    IF Len(x) # Len(y) THEN Len(x) < Len(y) ELSE BigLessFrom(x, y, Len(x))

FZero == [m |-> <<>>, e |-> 0]

\* The float nearest to x * 2^e, ties to the even mantissa.
FRound(x, e) ==
    LET len == BigBitLen(x)
        n == len - MantBits
        q == BigShr(x, n)
        up == BitAt(x, n - 1) = 1 /\ (LowBitsSet(x, n - 1) \/ BitAt(q, 0) = 1)
        q1 == IF up THEN BigAdd(q, <<1>>) ELSE q
    IN  IF x = <<>> THEN FZero
        ELSE IF n <= 0 THEN [m |-> BigShl(x, 0 - n), e |-> e + n]
        ELSE IF BigBitLen(q1) > MantBits THEN [m |-> BigShr(q1, 1), e |-> e + n + 1]
        ELSE [m |-> q1, e |-> e + n]

\* float + float
FAdd(x, y) ==
    LET emin == IF x.e < y.e THEN x.e ELSE y.e
    IN  IF x = FZero THEN y
        ELSE IF y = FZero THEN x
        ELSE FRound(BigAdd(BigShl(x.m, x.e - emin), BigShl(y.m, y.e - emin)), emin)

\* float * float
FMul(x, y) ==
    IF x = FZero \/ y = FZero THEN FZero ELSE FRound(BigMul(x.m, y.m), x.e + y.e)

RECURSIVE BigDivSmallFrom(_, _, _, _)
BigDivSmallFrom(x, d, i, rem) ==
    IF i = 0 THEN [q |-> <<>>, r |-> rem]
    ELSE LET cur == rem * Base + x[i]
             rest == BigDivSmallFrom(x, d, i - 1, cur % d)
         IN  [q |-> Append(rest.q, cur \div d), r |-> rest.r]

\* floor(x / d) and x mod d, for 0 < d < Base
BigDivSmall(x, d) ==
    [q |-> BigNorm(BigDivSmallFrom(x, d, Len(x), 0).q),
     r |-> BigDivSmallFrom(x, d, Len(x), 0).r]

\* int / int (true division), for 0 <= a < Base^2 and 0 < b < Base; also the
\* float a decimal literal a/b denotes
FDiv(a, b) ==
    LET scaled == BigDivSmall(BigShl(BigOfInt(a), 5 * LimbBits), b)
        sticky == IF scaled.r = 0 THEN <<>> ELSE <<1>>
    IN  FRound(BigAdd(BigShl(scaled.q, 1), sticky), 0 - (5 * LimbBits + 1))

FOne == FDiv(1, 1)

\* x < y, for floats that are not negative
FLess(x, y) ==
    IF y = FZero THEN FALSE
    ELSE IF x = FZero THEN TRUE
    ELSE IF x.e # y.e THEN x.e < y.e
    ELSE BigLess(x.m, y.m)

FLeq(x, y) == x = y \/ FLess(x, y)


-----------------------------------------------------------------------------
(***************************************************************************)
(* kurral/core/determinism.py : DeterminismScorer                          *)
(* kurral/core/artifact.py    : ArtifactGenerator.generate                 *)
(*                                                                         *)
(* Scores and weights are Python floats.  Temperatures, top_p and          *)
(* penalties are given in whole hundredths.  An optional field is <<>>     *)
(* (None) or <<value>>.  What a scoring function returns on each of its    *)
(* inputs is worked out once and kept in a table.                          *)
(***************************************************************************)

\* Bound of the scorer model: the longest tool_calls list scored.
MaxScoredCalls == 2

\* The function f as an explicit table: every value is worked out once.
Table(f) == f @@ <<>>

\* The float a decimal literal of h hundredths denotes: 0.25 is Lit[25]
Lit == Table([h \in 0..101 |-> FDiv(h, 100)])

\* min(a, b)
FMin(a, b) == IF FLess(b, a) THEN b ELSE a

\* DeterminismScorer.WEIGHTS, in dict order
WEIGHTS ==
    << <<"model_version", Lit[25]>>,
       <<"random_seed", Lit[20]>>,
       <<"prompt", Lit[20]>>,
       <<"tool_cache", Lit[15]>>,
       <<"environment", Lit[10]>>,
       <<"parameters", Lit[10]>> >>

\* "-" in model_name
HasHyphen(name) == \E i \in DOMAIN name : name[i] = "-"

ModelNames ==
    { <<>>, <<"g", "p", "t", "4">>, <<"g", "p", "t", "-", "4", "-", "0", "6", "1", "3">> }

ModelConfigs ==
    [model_name : ModelNames,
     model_version : {<<>>, <<"0613">>},
     seed : {<<>>, <<12345>>},
     temperature : {0, 20, 50, 70},
     top_p : {<<>>, <<95>>, <<50>>},
     presence_penalty : {<<>>, <<50>>},
     frequency_penalty : {<<0>>, <<50>>}]

\* The config of a run whose model was not seen: decorator.py gives it the
\* model_name "unknown" and the temperature 0.7.
Unknown == <<"u", "n", "k", "n", "o", "w", "n">>

UnknownConfig ==
    [model_name |-> Unknown, model_version |-> <<>>, seed |-> <<>>,
     temperature |-> 70, top_p |-> <<>>, presence_penalty |-> <<>>,
     frequency_penalty |-> <<0>>]

\* ResolvedPrompt: template and final_text are strings, variables a dict
\* (here: how many entries it has)
Prompts == [template : {"", "You are"}, variables : {0, 1}, final_text : {"", "You are"}]

\* The fields of a ToolCall the scorer reads.
ScoredCalls ==
    { [cache_key |-> "k1", error |-> None],
      [cache_key |-> None, error |-> None],
      [cache_key |-> "k1", error |-> "timeout"] }

ScoredCallLists == UNION { [1..n -> ScoredCalls] : n \in 0..MaxScoredCalls }

\* The fields of a KurralArtifact the scorer reads: time_env (with its
\* environment_vars, here their number) and the environment label.
ScoredArtifacts ==
    { <<>>,
      <<[time_env |-> <<>>, environment |-> ""]>>,
      <<[time_env |-> <<[environment_vars |-> 0]>>, environment |-> ""]>>,
      <<[time_env |-> <<[environment_vars |-> 2]>>, environment |-> "production"]>> }

score_model_version(config) ==
    IF config.model_version # <<>> /\ config.model_version # <<"">> THEN Lit[100]
    ELSE IF config.model_name # <<>> /\ HasHyphen(config.model_name) THEN Lit[80]
    ELSE IF config.model_name # <<>> THEN Lit[30]
    ELSE Lit[0]

score_random_seed(config) == IF config.seed # <<>> THEN Lit[100] ELSE Lit[0]

\* if cond: score += amount
AddWhen(cond, score, amount) == IF cond THEN FAdd(score, amount) ELSE score

score_prompt(prompt) ==
    LET s0 == Lit[0]
        s1 == AddWhen(prompt.template # "", s0, Lit[30])
        s2 == AddWhen(prompt.variables # 0 /\ prompt.final_text # "", s1, Lit[40])
        s3 == AddWhen(prompt.final_text # "", s2, Lit[30])
    IN  FMin(s3, Lit[100])

\* sum(1 for tc in tool_calls if tc.cache_key and not tc.error)
Cacheable(tool_calls) ==
    Cardinality({i \in DOMAIN tool_calls :
                    tool_calls[i].cache_key # None /\ tool_calls[i].error = None})

\* k / n
Quotient ==
    Table([k \in 0..(MaxScoredCalls + 1), n \in 1..(MaxScoredCalls + 1) |-> FDiv(k, n)])

\* A mistake score_tool_cache could make: the count, not the fraction.
score_tool_cache_count(tool_calls) ==
    IF tool_calls = <<>> THEN Lit[100]
    ELSE Quotient[Cacheable(tool_calls), 1]

score_tool_cache(tool_calls) ==
    IF tool_calls = <<>> THEN Lit[100]
    ELSE Quotient[Cacheable(tool_calls), Len(tool_calls)]

score_environment(art) ==
    LET s0 == Lit[0]
        s1 == AddWhen(art[1].time_env # <<>>, s0, Lit[50])
        s2 == AddWhen(art[1].environment # "", s1, Lit[30])
        s3 == AddWhen(art[1].time_env # <<>> /\ art[1].time_env[1].environment_vars # 0,
                      s2, Lit[20])
    IN  IF art = <<>> THEN Lit[50] ELSE FMin(s3, Lit[100])

score_parameters(config) ==
    LET s0 == Lit[0]
        top_p_is_one == config.top_p = <<>> \/ config.top_p = <<100>>
        s1 == AddWhen(config.temperature < 70, s0,
                      IF config.temperature = 0 THEN Lit[50]
                      ELSE IF config.temperature < 30 THEN Lit[30]
                      ELSE Lit[10])
        s2 == AddWhen(top_p_is_one \/ config.top_p[1] > 90, s1,
                      IF top_p_is_one THEN Lit[30] ELSE Lit[20])
        s3 == AddWhen(config.presence_penalty = <<0>> \/ config.presence_penalty = <<>>,
                      s2, Lit[10])
        s4 == AddWhen(config.frequency_penalty = <<0>> \/ config.frequency_penalty = <<>>,
                      s3, Lit[10])
    IN  FMin(s4, Lit[100])

\* The scoring functions, tabulated over the inputs the model draws.
PromptScore == Table([prompt \in Prompts |-> score_prompt(prompt)])

EnvironmentScore == Table([art \in ScoredArtifacts |-> score_environment(art)])

ParametersScore ==
    Table([config \in ModelConfigs \cup {UnknownConfig} |-> score_parameters(config)])

\* DeterminismScorer.score: the breakdown, in dict order
Breakdown(config, prompt, tool_calls, art) ==
    [model_version |-> score_model_version(config),
     random_seed |-> score_random_seed(config),
     prompt |-> PromptScore[prompt],
     tool_cache |-> score_tool_cache(tool_calls),
     environment |-> EnvironmentScore[art],
     parameters |-> ParametersScore[config]]

\* sum(score * self.WEIGHTS[key] for key, score in breakdown.items()): the
\* products are added left to right, starting from 0
RECURSIVE WeightedSumTo(_, _)
WeightedSumTo(breakdown, n) ==
    IF n = 0 THEN FZero
    ELSE FAdd(WeightedSumTo(breakdown, n - 1),
              FMul(breakdown[WEIGHTS[n][1]], WEIGHTS[n][2]))

WeightedSum(breakdown) == WeightedSumTo(breakdown, Len(WEIGHTS))

\* Every breakdown the scoring functions can produce, and its weighted sum.
Breakdowns ==
    [model_version : {score_model_version(c) : c \in ModelConfigs},
     random_seed : {score_random_seed(c) : c \in ModelConfigs},
     prompt : {PromptScore[p] : p \in Prompts},
     tool_cache : {score_tool_cache(t) : t \in ScoredCallLists},
     environment : {EnvironmentScore[a] : a \in ScoredArtifacts},
     parameters : {ParametersScore[c] : c \in ModelConfigs}]

Overall == Table([breakdown \in Breakdowns |-> WeightedSum(breakdown)])

\* lines 154-183: the report of a breakdown
Report(breakdown) == [breakdown |-> breakdown, overall_score |-> Overall[breakdown]]

ScoreReport(config, prompt, tool_calls, art) ==
    Report(Breakdown(config, prompt, tool_calls, art))

\* A mistake assign_replay_level could make: strict comparisons.
assign_replay_level_strict(score) ==
    IF FLess(Lit[90], score) THEN "A"
    ELSE IF FLess(Lit[50], score) THEN "B"
    ELSE "C"

assign_replay_level(score) ==
    IF FLeq(Lit[90], score) THEN "A"
    ELSE IF FLeq(Lit[50], score) THEN "B"
    ELSE "C"

ScorerInput(config, prompt, tool_calls, art) ==
    <<[llm_config |-> config, prompt |-> prompt, tool_calls |-> tool_calls,
       artifact |-> art]>>

\* scorer.score(llm_config, prompt, tool_calls, artifact)
Score(config, prompt, tool_calls, art) ==
    /\ scorer.op = "init"
    /\ scorer' = [scorer EXCEPT
                    !.op = "score",
                    !.input = ScorerInput(config, prompt, tool_calls, art),
                    !.report = <<ScoreReport(config, prompt, tool_calls, art)>>]
    /\ UNCHANGED notScorerVars

\* artifact.py lines 89-99: what generate keeps of the report
Generated(called, report) ==
    [called EXCEPT
        !.report = <<report>>,
        !.replay_level = assign_replay_level(report.overall_score),
        !.deterministic = <<FLeq(Lit[90], report.overall_score)>>]

\* ArtifactGenerator.generate, lines 86-99: score with artifact=None, assign
\* the replay level, set the deterministic flag.
Generate(config, prompt, tool_calls) ==
    /\ scorer.op = "init"
    /\ scorer' = Generated([scorer EXCEPT
                                !.op = "generate",
                                !.input = ScorerInput(config, prompt, tool_calls, <<>>)],
                            ScoreReport(config, prompt, tool_calls, <<>>))
    /\ UNCHANGED notScorerVars

\* DeterminismScorer.assign_replay_level(score), called on its own
AssignReplayLevel(score) ==
    /\ scorer.op = "init"
    /\ scorer' = [scorer EXCEPT
                    !.op = "assign_replay_level",
                    !.score_arg = score,
                    !.replay_level = assign_replay_level(score)]
    /\ UNCHANGED notScorerVars

\* The scores assign_replay_level is tried on: every hundredth from 0.0 to
\* 1.01, and 0.7 + 0.2 and 0.3 + 0.2, sums that fall just short of 0.9 and
\* on 0.5
ScoreArgs ==
    {Lit[h] : h \in DOMAIN Lit} \cup {FAdd(Lit[70], Lit[20]), FAdd(Lit[30], Lit[20])}

DoScore ==
    /\ scorer.op = "init"
    /\ \E config \in ModelConfigs, prompt \in Prompts, art \in ScoredArtifacts :
            Score(config, prompt, scorer.tool_calls, art)
DoGenerate ==
    /\ scorer.op = "init"
    /\ \E config \in ModelConfigs, prompt \in Prompts :
            Generate(config, prompt, scorer.tool_calls)
DoAssignReplayLevel ==
    /\ scorer.op = "init"
    /\ \E score \in ScoreArgs : AssignReplayLevel(score)

NextScorer == DoScore \/ DoGenerate \/ DoAssignReplayLevel

CoreIdle == CacheIdle /\ ThreadsIdle /\ ReplayIdle /\ InterceptIdle /\ CaptureIdle

\* The scorer is handed the tool calls a run captured: Init draws the list.
InitScorer ==
    /\ CoreIdle /\ ArsIdle /\ TrackerIdle /\ StoreIdle /\ MoreIdle
    /\ scorer \in {[ScorerStart EXCEPT !.tool_calls = tool_calls] :
                      tool_calls \in ScoredCallLists}

SpecScorer == InitScorer /\ [][NextScorer]_vars

\* C11: assign_replay_level(s) is A exactly when s >= 0.90, B exactly when
\* 0.50 <= s < 0.90 and C exactly when s < 0.50.
C11_ReplayLevelThresholds ==
    scorer.op = "assign_replay_level" =>
        LET s == scorer.score_arg
            below_nine_tenths == FLess(s, Lit[90])
            below_half == FLess(s, Lit[50])
        IN  /\ scorer.replay_level = "A" <=> ~below_nine_tenths
            /\ scorer.replay_level = "B" <=> (~below_half /\ below_nine_tenths)
            /\ scorer.replay_level = "C" <=> below_half

\* assign_replay_level was called with a score on a boundary.
C11_Witness ==
    /\ scorer.op = "assign_replay_level"
    /\ scorer.score_arg = Lit[90]
    /\ scorer.replay_level = "A"

\* 0.25 + 0.20 + 0.20 + 0.15 + 0.10 + 0.10, as sum(self.WEIGHTS.values()) adds them
RECURSIVE WeightsSumTo(_)
WeightsSumTo(n) == IF n = 0 THEN FZero ELSE FAdd(WeightsSumTo(n - 1), WEIGHTS[n][2])

WeightsSum == WeightsSumTo(Len(WEIGHTS))

\* C12: each of the six component scores lies in [0,1], the six weights sum
\* to 1.0, and the overall score, their weighted sum, lies in [0,1]; also
\* when the artifact is None.
C12_ScoresInUnitInterval ==
    scorer.op \in {"score", "generate"} =>
        LET r == scorer.report[1]
        IN  /\ \A k \in DOMAIN r.breakdown :
                 FLeq(FZero, r.breakdown[k]) /\ FLeq(r.breakdown[k], FOne)
            /\ WeightsSum = FOne
            /\ FLeq(FZero, r.overall_score) /\ FLeq(r.overall_score, FOne)

\* The scorer was given artifact = None and tool calls, all of them cacheable.
C12_Witness ==
    /\ scorer.op = "score"
    /\ scorer.input[1].artifact = <<>>
    /\ Len(scorer.input[1].tool_calls) = MaxScoredCalls
    /\ scorer.report[1].breakdown.tool_cache = FOne
    /\ scorer.report[1].overall_score # FZero

\* C13: generate marks the artifact deterministic when the model name embeds
\* a version after a hyphen with no separate model_version, temperature is 0,
\* a seed is set, the prompt has a template and final text with an empty
\* variables map, and there are no tool calls.
C13_VersionedSeededIsDeterministic ==
    (/\ scorer.op = "generate"
     /\ scorer.input[1].llm_config.model_version = <<>>
     /\ HasHyphen(scorer.input[1].llm_config.model_name)
     /\ scorer.input[1].llm_config.temperature = 0
     /\ scorer.input[1].llm_config.seed # <<>>
     /\ scorer.input[1].prompt.template # ""
     /\ scorer.input[1].prompt.final_text # ""
     /\ scorer.input[1].prompt.variables = 0
     /\ scorer.input[1].tool_calls = <<>>)
        => scorer.deterministic = <<TRUE>>

-----------------------------------------------------------------------------
(***************************************************************************)
(* kurral/core/ars.py : ARSCalculator                                      *)
(*                                                                         *)
(* A text is the sequence of its characters.  A dict is the sequence of    *)
(* its <<key, value>> pairs in insertion order, with one-character keys    *)
(* and one-digit values; None is <<"None">>.                               *)
(***************************************************************************)

\* difflib.SequenceMatcher.find_longest_match: the length of the common run
\* of a[i..] and b[j..] inside a[..ahi-1], b[..bhi-1]
RECURSIVE CommonRun(_, _, _, _, _, _)
CommonRun(a, b, i, j, ahi, bhi) ==
    IF i >= ahi \/ j >= bhi THEN 0
    ELSE IF a[i] # b[j] THEN 0
    ELSE 1 + CommonRun(a, b, i + 1, j + 1, ahi, bhi)

\* difflib.SequenceMatcher.get_matching_blocks: the total size of the
\* matching blocks of a[alo..ahi-1] and b[blo..bhi-1].  The longest block is
\* taken first, of several the one starting earliest in a, then earliest in
\* b; then the pieces to its left and to its right are matched.
RECURSIVE Matches(_, _, _, _, _, _)
Matches(a, b, alo, ahi, blo, bhi) ==
    LET starts == {ij \in (alo..(ahi - 1)) \X (blo..(bhi - 1)) : a[ij[1]] = b[ij[2]]}
        run == [ij \in starts |-> CommonRun(a, b, ij[1], ij[2], ahi, bhi)]
        lengths == {run[ij] : ij \in starts}
        bestsize == CHOOSE k \in lengths : \A other \in lengths : other <= k
        longest == {ij \in starts : run[ij] = bestsize}
        besti == CHOOSE i \in {ij[1] : ij \in longest} :
                    \A ij \in longest : i <= ij[1]
        bestj == CHOOSE j \in {ij[2] : ij \in {x \in longest : x[1] = besti}} :
                    \A ij \in longest : ij[1] = besti => j <= ij[2]
        best == <<besti, bestj>>
    IN  IF starts = {} THEN 0
        ELSE run[best]
             + Matches(a, b, alo, best[1], blo, best[2])
             + Matches(a, b, best[1] + run[best], ahi, best[2] + run[best], bhi)

\* difflib.SequenceMatcher(None, a, b).ratio(): 2.0 * matches / length
Ratio(a, b) ==
    IF Len(a) + Len(b) = 0 THEN FOne
    ELSE FDiv(2 * Matches(a, b, 1, Len(a) + 1, 1, Len(b) + 1), Len(a) + Len(b))

PyNone == <<"None">>

\* json.dumps(d, sort_keys=True) of a dict or None
RECURSIVE DumpsItems(_)
DumpsItems(items) ==
    IF items = <<>> THEN <<>>
    ELSE <<"\"", Head(items)[1], "\"", ":", " ", Head(items)[2]>>
            \o (IF Len(items) > 1 THEN <<",", " ">> ELSE <<>>)
            \o DumpsItems(Tail(items))

DumpsDict(d) ==
    IF d = PyNone THEN <<"n", "u", "l", "l">>
    ELSE <<"{">>
            \o DumpsItems(SortSeq(d, LAMBDA x, y : KeyRank(x[1]) < KeyRank(y[1])))
            \o <<"}">>

\* json.dumps of one side effect: its keys sorted are inputs, outputs, tool
DumpsEffect(effect) ==
    <<"{", "\"", "i", "n", "p", "u", "t", "s", "\"", ":", " ">> \o DumpsDict(effect.inputs)
        \o <<",", " ", "\"", "o", "u", "t", "p", "u", "t", "s", "\"", ":", " ">> \o DumpsDict(effect.outputs)
        \o <<",", " ", "\"", "t", "o", "o", "l", "\"", ":", " ", "\"">> \o effect.tool \o <<"\"", "}">>

RECURSIVE DumpsEffectsFrom(_)
DumpsEffectsFrom(effects) ==
    IF effects = <<>> THEN <<>>
    ELSE DumpsEffect(Head(effects))
            \o (IF Len(effects) > 1 THEN <<",", " ">> ELSE <<>>)
            \o DumpsEffectsFrom(Tail(effects))

DumpsEffects(effects) == <<"[">> \o DumpsEffectsFrom(effects) \o <<"]">>

\* str.lower() on the letters the tool names use
Lower(name) == [i \in DOMAIN name |-> IF name[i] = "P" THEN "p" ELSE name[i]]

\* pattern in text
Contains(text, pattern) ==
    \E i \in 1..(Len(text) - Len(pattern) + 1) :
        SubSeq(text, i, i + Len(pattern) - 1) = pattern

side_effect_patterns ==
    << <<"w", "r", "i", "t", "e">>,
       <<"d", "e", "l", "e", "t", "e">>,
       <<"u", "p", "d", "a", "t", "e">>,
       <<"c", "r", "e", "a", "t", "e">>,
       <<"s", "e", "n", "d">>,
       <<"p", "o", "s", "t">>,
       <<"p", "u", "t">>,
       <<"p", "a", "t", "c", "h">> >>

is_side_effect_tool(tool_name) ==
    \E p \in DOMAIN side_effect_patterns :
        Contains(Lower(tool_name), side_effect_patterns[p])

extract_side_effects(art) ==
    LET RECURSIVE From(_)
        From(tcs) ==
            IF tcs = <<>> THEN <<>>
            ELSE (IF is_side_effect_tool(Head(tcs).tool_name)
                  THEN <<[tool |-> Head(tcs).tool_name, inputs |-> Head(tcs).inputs,
                          outputs |-> Head(tcs).outputs]>>
                  ELSE <<>>)
                 \o From(Tail(tcs))
    IN  From(art.tool_calls)

\* The artifacts compared: outputs, tool calls and error of a KurralArtifact.
ArsOutputs == { <<>>, << <<"n", "1">> >>, << <<"r", "2">>, <<"n", "1">> >> }

ToolGet(inputs) == [tool_name |-> <<"g", "e", "t">>, inputs |-> inputs, outputs |-> <<>>]
ToolPut  == [tool_name |-> <<"P", "u", "t">>, inputs |-> <<>>, outputs |-> <<>>]
ToolPost == [tool_name |-> <<"p", "o", "s", "t">>, inputs |-> << <<"n", "1">> >>,
             outputs |-> <<>>]

GetNR == ToolGet(<< <<"n", "1">>, <<"r", "2">> >>)
GetRN == ToolGet(<< <<"r", "2">>, <<"n", "1">> >>)

ArsToolCalls ==
    { <<>>, <<GetNR>>, <<GetRN>>, <<GetNR, GetNR>>, <<ToolGet(PyNone), GetNR>>,
      <<ToolPut>>, <<ToolPost>>, <<GetNR, ToolPut>> }

\* error: None, or a message
ArsErrors == { PyNone, <<>>, <<"a", "b", "b", "b">>, <<"b", "b", "a", "b">> }

ArsArtifacts == [outputs : ArsOutputs, tool_calls : ArsToolCalls, error : ArsErrors]

\* ARSCalculator.WEIGHTS, in dict order
ARS_WEIGHTS ==
    << <<"output_similarity", FDiv(40, 100)>>,
       <<"tool_match_rate", FDiv(30, 100)>>,
       <<"side_effect_divergence", FDiv(20, 100)>>,
       <<"error_delta", FDiv(10, 100)>> >>

output_similarity(baseline, candidate) ==
    LET baseline_text == DumpsDict(baseline.outputs)
        candidate_text == DumpsDict(candidate.outputs)
    IN  IF baseline_text = candidate_text THEN FOne
        ELSE Ratio(baseline_text, candidate_text)

\* [(tc.tool_name, json.dumps(tc.inputs, sort_keys=True)) for tc in tool_calls]
CallTuples(tool_calls) ==
    [i \in DOMAIN tool_calls |->
        <<tool_calls[i].tool_name, DumpsDict(tool_calls[i].inputs)>>]

SetOf(seq) == {seq[i] : i \in DOMAIN seq}

\* _tool_match_rate with the case of two empty lists scored like any other
tool_match_rate_no_empty_case(baseline, candidate) ==
    LET baseline_calls == CallTuples(baseline.tool_calls)
        candidate_calls == CallTuples(candidate.tool_calls)
        baseline_set == SetOf(baseline_calls)
        candidate_set == SetOf(candidate_calls)
        intersection == Cardinality(baseline_set \cap candidate_set)
        union == Cardinality(baseline_set \cup candidate_set)
    IN  IF baseline.tool_calls = <<>> \/ candidate.tool_calls = <<>> THEN FZero
        ELSE IF baseline_calls = candidate_calls THEN FOne
        ELSE IF baseline_set = {} \/ candidate_set = {} THEN FZero
        ELSE IF union > 0 THEN FDiv(intersection, union) ELSE FZero

tool_match_rate(baseline, candidate) ==
    LET baseline_calls == CallTuples(baseline.tool_calls)
        candidate_calls == CallTuples(candidate.tool_calls)
        baseline_set == SetOf(baseline_calls)
        candidate_set == SetOf(candidate_calls)
        intersection == Cardinality(baseline_set \cap candidate_set)
        union == Cardinality(baseline_set \cup candidate_set)
    IN  IF baseline.tool_calls = <<>> /\ candidate.tool_calls = <<>> THEN FOne
        ELSE IF baseline.tool_calls = <<>> \/ candidate.tool_calls = <<>> THEN FZero
        ELSE IF baseline_calls = candidate_calls THEN FOne
        ELSE IF baseline_set = {} \/ candidate_set = {} THEN FZero
        ELSE IF union > 0 THEN FDiv(intersection, union) ELSE FZero

side_effect_divergence(baseline, candidate) ==
    LET baseline_effects == extract_side_effects(baseline)
        candidate_effects == extract_side_effects(candidate)
    IN  IF baseline_effects = candidate_effects THEN FOne
        ELSE IF baseline_effects = <<>> /\ candidate_effects = <<>> THEN FOne
        ELSE IF baseline_effects = <<>> \/ candidate_effects = <<>> THEN FZero
        ELSE Ratio(DumpsEffects(baseline_effects), DumpsEffects(candidate_effects))

\* bool(error): None and "" are falsy
ErrorTruthy(error) == error # PyNone /\ error # <<>>

error_delta(baseline, candidate) ==
    LET baseline_error == baseline.error
        candidate_error == candidate.error
    IN  IF ~ErrorTruthy(baseline_error) /\ ~ErrorTruthy(candidate_error) THEN FOne
        ELSE IF baseline_error = candidate_error THEN FOne
        ELSE IF ErrorTruthy(baseline_error) # ErrorTruthy(candidate_error) THEN FZero
        ELSE IF ErrorTruthy(baseline_error) /\ ErrorTruthy(candidate_error)
             THEN FMul(Ratio(baseline_error, candidate_error), FDiv(1, 2))
        ELSE FZero

ArsScores(baseline, candidate) ==
    [output_similarity |-> output_similarity(baseline, candidate),
     tool_match_rate |-> tool_match_rate(baseline, candidate),
     side_effect_divergence |-> side_effect_divergence(baseline, candidate),
     error_delta |-> error_delta(baseline, candidate)]

\* sum(score * self.WEIGHTS[key] for key, score in scores.items()): the
\* products are added left to right, starting from 0
RECURSIVE WeightedSumUpTo(_, _)
WeightedSumUpTo(scores, n) ==
    IF n = 0 THEN FZero
    ELSE FAdd(WeightedSumUpTo(scores, n - 1),
              FMul(scores[ARS_WEIGHTS[n][1]], ARS_WEIGHTS[n][2]))

calculate(baseline, candidate) ==
    WeightedSumUpTo(ArsScores(baseline, candidate), Len(ARS_WEIGHTS))

\* ARSCalculator.calculate(baseline, candidate)
Calculate(baseline, candidate) ==
    /\ ars' = [op |-> "calculate", baseline |-> baseline, candidate |-> candidate,
               scores |-> ArsScores(baseline, candidate),
               ars |-> calculate(baseline, candidate)]
    /\ UNCHANGED notArsVars

DoCalculate ==
    /\ ars.op = "given"
    /\ Calculate(ars.baseline, ars.candidate)

NextArs == DoCalculate

\* Two artifacts are at hand; calculate() has not been called.
InitArs ==
    /\ CoreIdle /\ ScorerIdle /\ TrackerIdle /\ StoreIdle /\ MoreIdle
    /\ ars \in [op : {"given"}, baseline : ArsArtifacts, candidate : ArsArtifacts]

SpecArs == InitArs /\ [][NextArs]_vars

\* The ratio gives the same number when its two texts are exchanged, for
\* every pair of texts calculate(baseline, candidate) hands to it.
RatioSymmetricFor(baseline, candidate) ==
    /\ Ratio(DumpsDict(baseline.outputs), DumpsDict(candidate.outputs))
        = Ratio(DumpsDict(candidate.outputs), DumpsDict(baseline.outputs))
    /\ Ratio(DumpsEffects(extract_side_effects(baseline)),
             DumpsEffects(extract_side_effects(candidate)))
        = Ratio(DumpsEffects(extract_side_effects(candidate)),
                DumpsEffects(extract_side_effects(baseline)))
    /\ (ErrorTruthy(baseline.error) /\ ErrorTruthy(candidate.error)
            => Ratio(baseline.error, candidate.error)
                = Ratio(candidate.error, baseline.error))

\* C14: calculate(A, A) is 1.0 for every artifact A, and calculate(A, B) equals
\* calculate(B, A) whenever the ratio is symmetric on the texts compared.
C14_IdentityAndSymmetry ==
    ars.op = "calculate" =>
        /\ (ars.baseline = ars.candidate => ars.ars = FOne)
        /\ (RatioSymmetricFor(ars.baseline, ars.candidate)
                => ars.ars = calculate(ars.candidate, ars.baseline))

\* The second half of C14 alone.
ArsSymmetry ==
    ars.op = "calculate" /\ RatioSymmetricFor(ars.baseline, ars.candidate)
        => ars.ars = calculate(ars.candidate, ars.baseline)

\* The Jaccard index of the two sets of (tool_name, canonical JSON of inputs)
\* tuples, as a fraction <<numerator, denominator>>
Jaccard(baseline, candidate) ==
    LET canonical(d) == IF d = PyNone THEN d ELSE JsonDumpsSortKeys(d)
        b == {<<tc.tool_name, canonical(tc.inputs)>> : tc \in SetOf(baseline.tool_calls)}
        c == {<<tc.tool_name, canonical(tc.inputs)>> : tc \in SetOf(candidate.tool_calls)}
    IN  <<Cardinality(b \cap c), Cardinality(b \cup c)>>

InUnitInterval(x) == FLeq(FZero, x) /\ FLeq(x, FOne)

-----------------------------------------------------------------------------
(***************************************************************************)
(* Kurral_tester/langchain_integration.py : ToolCallCaptureHandler         *)
(* kurral/integrations/langgraph_callback.py : KurralToolTracker           *)
(*                                                                         *)
(* The framework tells the handler of tool runs: on_tool_start when a run  *)
(* begins, on_tool_end or on_tool_error when it finishes.  Runs of tools   *)
(* that execute in parallel overlap.  Both handlers keep the run in        *)
(* progress in one set of fields and ignore the run_id of the event.       *)
(***************************************************************************)
MaxRuns == 3

Runs == 1..MaxRuns

Handlers == {"ToolCallCaptureHandler", "KurralToolTracker"}

\* serialized.get("name", "unknown") of the run's tool
ToolNameOf(r) == <<"tool", r>>

\* __init__ of either handler; runs, started and clock are the environment
TrackerStart(h) ==
    [handler |-> h,
     tool_calls |-> <<>>,
     current_tool_name |-> None,
     current_tool_start |-> None,
     runs |-> [r \in Runs |-> "new"],
     started |-> <<>>,
     clock |-> 1]

\* on_tool_start of run r
ToolStart(r) ==
    /\ trk.runs[r] = "new"
    /\ trk' = [trk EXCEPT !.current_tool_name = ToolNameOf(r),
                          !.current_tool_start = trk.clock,
                          !.runs[r] = "running",
                          !.started = Append(@, ToolNameOf(r)),
                          !.clock = @ + 1]
    /\ UNCHANGED notTrackerVars

\* The ToolCall both handlers append, built from the fields of the run in progress
TrackedCall(output, status) ==
    [tool_name |-> trk.current_tool_name,
     start_time |-> trk.current_tool_start,
     latency |-> trk.clock - trk.current_tool_start,
     output |-> output,
     status |-> status]

\* on_tool_end / on_tool_error of run r: nothing when no run is in progress,
\* else one ToolCall appended and the fields reset
ToolFinish(r, status) ==
    /\ trk.runs[r] = "running"
    /\ IF trk.current_tool_name = None
       THEN trk' = [trk EXCEPT !.runs[r] = status, !.clock = @ + 1]
       ELSE trk' = [trk EXCEPT
                        !.tool_calls = Append(@, TrackedCall(<<status, r>>, status)),
                        !.current_tool_name = None,
                        !.current_tool_start = None,
                        !.runs[r] = status,
                        !.clock = @ + 1]
    /\ UNCHANGED notTrackerVars

ToolEnd(r) == ToolFinish(r, "ok")

ToolError(r) == ToolFinish(r, "error")

DoToolStart == trk.handler \in Handlers /\ \E r \in Runs : ToolStart(r)

DoToolEnd == trk.handler \in Handlers /\ \E r \in Runs : ToolEnd(r)

DoToolError == trk.handler \in Handlers /\ \E r \in Runs : ToolError(r)

NextTracker == DoToolStart \/ DoToolEnd \/ DoToolError

InitTracker ==
    /\ CoreIdle /\ ScorerIdle /\ ArsIdle /\ StoreIdle /\ MoreIdle
    /\ \E h \in Handlers : trk = TrackerStart(h)

SpecTracker == InitTracker /\ [][NextTracker]_vars

\* C16: once every run the handler was told of has finished, tool_calls holds
\* the runs' calls in the order of their tool_start events.
C16_CallsInStartOrder ==
    (trk.handler \in Handlers /\ \A r \in Runs : trk.runs[r] # "running")
        => [i \in DOMAIN trk.tool_calls |-> trk.tool_calls[i].tool_name] = trk.started

\* C25: every tool_start that is answered by a tool_end or a tool_error
\* yields exactly one recorded ToolCall, carrying that start's tool name (and
\* input, which the handlers keep as they keep the name) together with that
\* end's output or error, also when a second tool starts before the first
\* has ended.
C25_OneCallPerAnsweredStart ==
    trk.handler \in Handlers =>
        \A r \in Runs :
            trk.runs[r] \in {"ok", "error"} =>
                LET answers == {i \in DOMAIN trk.tool_calls :
                                   trk.tool_calls[i].output = <<trk.runs[r], r>>}
                IN  /\ Cardinality(answers) = 1
                    /\ \A i \in answers :
                          trk.tool_calls[i].tool_name = ToolNameOf(r)

-----------------------------------------------------------------------------
(***************************************************************************)
(* Kurral_tester/artifact_manager.py : ArtifactManager.save                *)
(* kurral/core/decorator.py : _enrich_artifact_from_langsmith_sync         *)
(*                                                                         *)
(* Several save() calls and one enrichment thread work on one store        *)
(* directory.  Each system call is one step; the calls of different        *)
(* threads interleave.  A file is absent, empty (just truncated), partial, *)
(* or complete; a .kurral file also has a generation, which changes when   *)
(* a new file is moved into its place.                                     *)
(***************************************************************************)
MaxSavers == 2

Savers == 1..MaxSavers

ArtifactIds == {"a1", "a2"}

\* The artifact whose file the enrichment thread rewrites.
EnrichedId == "a1"

NoFile == [state |-> "absent", gen |-> 0]

NoIndex == [state |-> "absent", artifacts |-> <<>>]

\* ArtifactManager.__init__ : the directory exists; nothing is in it.
DiskStart == [art |-> [id \in ArtifactIds |-> NoFile], index |-> NoIndex]

SaverStart(id) == [pc |-> "start", id |-> id, index |-> <<>>]

EnricherStart == [pc |-> "start", gen |-> 0]

\* artifact.save(filepath), as the specification describes it: the text is
\* written to a temporary file which is then renamed to filepath.
ArtifactSave(t) ==
    LET id == procs.savers[t].id
    IN  /\ procs.savers[t].pc = "start"
        /\ disk' = [disk EXCEPT !.art[id] = [state |-> "complete", gen |-> @.gen + 1]]
        /\ procs' = [procs EXCEPT !.savers[t].pc = "verify"]
        /\ UNCHANGED notStoreVars

\* artifact.save(filepath) raises: the temporary file is unlinked.
ArtifactSaveRaises(t) ==
    /\ procs.savers[t].pc = "start"
    /\ procs' = [procs EXCEPT !.savers[t].pc = "cleanup"]
    /\ UNCHANGED <<disk, notStoreVars>>

\* save: if not filepath.exists() or filepath.stat().st_size == 0: raise
SaveVerify(t) ==
    LET file == disk.art[procs.savers[t].id]
    IN  /\ procs.savers[t].pc = "verify"
        /\ procs' = [procs EXCEPT !.savers[t].pc =
                        IF file.state \in {"absent", "empty"} THEN "cleanup"
                        ELSE "load_exists"]
        /\ UNCHANGED <<disk, notStoreVars>>

\* _load_index: if not index_path.exists(): return the empty index
LoadIndexExists(t) ==
    /\ procs.savers[t].pc = "load_exists"
    /\ procs' = [procs EXCEPT !.savers[t] =
                    IF disk.index.state = "absent"
                    THEN [@ EXCEPT !.pc = "open_w", !.index = <<>>]
                    ELSE [@ EXCEPT !.pc = "load_read"]]
    /\ UNCHANGED <<disk, notStoreVars>>

\* _load_index: json.load(f); any exception gives the empty index
LoadIndexRead(t) ==
    /\ procs.savers[t].pc = "load_read"
    /\ procs' = [procs EXCEPT !.savers[t] =
                    [@ EXCEPT !.pc = "open_w",
                              !.index = IF disk.index.state = "complete"
                                        THEN disk.index.artifacts ELSE <<>>]]
    /\ UNCHANGED <<disk, notStoreVars>>

\* [a for a in artifacts if a.get("kurral_id") != str(artifact.kurral_id)]
WithoutId(artifacts, id) == SelectSeq(artifacts, LAMBDA a : a # id)

\* _update_index: the entry replaces one of the same kurral_id and goes last;
\* open(index_path, "w") truncates the file.
UpdateIndexOpen(t) ==
    LET me == procs.savers[t]
    IN  /\ me.pc = "open_w"
        /\ procs' = [procs EXCEPT !.savers[t] =
                        [@ EXCEPT !.pc = "dump",
                                  !.index = Append(WithoutId(me.index, me.id), me.id)]]
        /\ disk' = [disk EXCEPT !.index = [state |-> "empty", artifacts |-> <<>>]]
        /\ UNCHANGED notStoreVars

\* What index.json holds after text is written from offset 0 over what another
\* writer has put there since the truncation: the entries are of one size, so
\* a shorter text leaves the tail of the longer one behind it.
Overwritten(file, artifacts) ==
    IF file.state = "empty" \/ Len(artifacts) >= Len(file.artifacts)
    THEN [state |-> "complete", artifacts |-> artifacts]
    ELSE [state |-> "corrupt", artifacts |-> file.artifacts]

\* _update_index: json.dump(index, f, indent=2) and the close of the file
UpdateIndexDump(t) ==
    /\ procs.savers[t].pc = "dump"
    /\ disk' = [disk EXCEPT !.index = Overwritten(@, procs.savers[t].index)]
    /\ procs' = [procs EXCEPT !.savers[t].pc = "returned"]
    /\ UNCHANGED notStoreVars

\* save, except Exception: an empty file is unlinked, RuntimeError is raised
SaveCleanup(t) ==
    LET id == procs.savers[t].id
    IN  /\ procs.savers[t].pc = "cleanup"
        /\ disk' = [disk EXCEPT !.art[id] =
                        IF @.state = "empty" THEN [@ EXCEPT !.state = "absent"] ELSE @]
        /\ procs' = [procs EXCEPT !.savers[t].pc = "raised"]
        /\ UNCHANGED notStoreVars

\* The enrichment thread is started once the artifact has been exported.
Exported(id) == \E t \in Savers : procs.savers[t].id = id /\ procs.savers[t].pc = "returned"

\* _enrich_artifact_from_langsmith_sync: if not artifact_file.exists(): return
EnrichExists ==
    /\ procs.enricher.pc = "start"
    /\ Exported(EnrichedId)
    /\ procs' = [procs EXCEPT !.enricher.pc =
                    IF disk.art[EnrichedId].state = "absent" THEN "done" ELSE "load"]
    /\ UNCHANGED <<disk, notStoreVars>>

\* open(artifact_file, 'r') and json.load(f): an exception ends the thread
EnrichLoad ==
    /\ procs.enricher.pc = "load"
    /\ procs' = [procs EXCEPT !.enricher.pc =
                    IF disk.art[EnrichedId].state = "complete" THEN "open_w" ELSE "done"]
    /\ UNCHANGED <<disk, notStoreVars>>

\* open(artifact_file, 'w') truncates the file, or creates it
EnrichOpen ==
    /\ procs.enricher.pc = "open_w"
    /\ disk' = [disk EXCEPT !.art[EnrichedId].state = "empty"]
    /\ procs' = [procs EXCEPT !.enricher = [pc |-> "dump", gen |-> disk.art[EnrichedId].gen]]
    /\ UNCHANGED notStoreVars

\* json.dump(artifact_data, f, indent=2, default=str): the text reaches the
\* file in one write or in several; a write to a file that has been replaced
\* since it was opened changes nothing that can be seen.
EnrichDump(all) ==
    LET file == disk.art[EnrichedId]
        mine == file.gen = procs.enricher.gen /\ file.state # "absent"
    IN  /\ procs.enricher.pc = "dump"
        /\ all \/ file.state = "empty"
        /\ disk' = IF mine
                   THEN [disk EXCEPT !.art[EnrichedId].state =
                            IF all THEN "complete" ELSE "partial"]
                   ELSE disk
        /\ procs' = [procs EXCEPT !.enricher.pc = IF all THEN "done" ELSE "dump"]
        /\ UNCHANGED notStoreVars

\* The write raises, or the daemon thread ends with the program: the except
\* clause logs, the file stays as it is.
EnrichRaises ==
    /\ procs.enricher.pc = "dump"
    /\ procs' = [procs EXCEPT !.enricher.pc = "done"]
    /\ UNCHANGED <<disk, notStoreVars>>

StoreRunning == procs # <<>>

DoArtifactSave == StoreRunning /\ \E t \in Savers : ArtifactSave(t)

DoArtifactSaveRaises == StoreRunning /\ \E t \in Savers : ArtifactSaveRaises(t)

DoSaveVerify == StoreRunning /\ \E t \in Savers : SaveVerify(t)

DoLoadIndexExists == StoreRunning /\ \E t \in Savers : LoadIndexExists(t)

DoLoadIndexRead == StoreRunning /\ \E t \in Savers : LoadIndexRead(t)

DoUpdateIndexOpen == StoreRunning /\ \E t \in Savers : UpdateIndexOpen(t)

DoUpdateIndexDump == StoreRunning /\ \E t \in Savers : UpdateIndexDump(t)

DoSaveCleanup == StoreRunning /\ \E t \in Savers : SaveCleanup(t)

DoEnrichExists == StoreRunning /\ EnrichExists

DoEnrichLoad == StoreRunning /\ EnrichLoad

DoEnrichOpen == StoreRunning /\ EnrichOpen

DoEnrichDump == StoreRunning /\ \E all \in BOOLEAN : EnrichDump(all)

DoEnrichRaises == StoreRunning /\ EnrichRaises

NextStore ==
    \/ DoArtifactSave \/ DoArtifactSaveRaises \/ DoSaveVerify
    \/ DoLoadIndexExists \/ DoLoadIndexRead \/ DoUpdateIndexOpen \/ DoUpdateIndexDump
    \/ DoSaveCleanup
    \/ DoEnrichExists \/ DoEnrichLoad \/ DoEnrichOpen \/ DoEnrichDump \/ DoEnrichRaises

\* Every save() call has an artifact to save; none has begun.
InitStore ==
    /\ CoreIdle /\ ScorerIdle /\ ArsIdle /\ TrackerIdle /\ MoreIdle
    /\ disk = DiskStart
    /\ \E ids \in [Savers -> ArtifactIds] :
           procs = [savers |-> [t \in Savers |-> SaverStart(ids[t])],
                    enricher |-> EnricherStart]

SpecStore == InitStore /\ [][NextStore]_vars

\* C17: after two save() calls for different artifacts have both returned,
\* index.json holds an entry for each of them; it never holds two entries of
\* one kurral_id.
C17_NoLostIndexUpdate ==
    StoreRunning =>
        /\ (/\ \A t \in Savers : procs.savers[t].pc = "returned"
            /\ \A t, u \in Savers : t # u => procs.savers[t].id # procs.savers[u].id)
              => /\ disk.index.state = "complete"
                 /\ \A t \in Savers :
                       \E i \in DOMAIN disk.index.artifacts :
                           disk.index.artifacts[i] = procs.savers[t].id
        /\ \A i, j \in DOMAIN disk.index.artifacts :
               disk.index.artifacts[i] = disk.index.artifacts[j] => i = j

\* C18: at every moment each .kurral file is absent or holds one complete
\* artifact, while save() writes it, while the enrichment rewrites it and
\* after a write has failed.
C18_ArtifactFilesWhole ==
    StoreRunning =>
        \A id \in ArtifactIds : disk.art[id].state \in {"absent", "complete"}

(***************************************************************************)
(* kurral/storage/memory.py : MemoryStorage.  Every public method holds    *)
(* self._lock (an RLock) from entry to return, so each call is one step.   *)
(***************************************************************************)

\* The artifact ids the callers use.
MemIds == {"a", "b", "c"}

\* len(artifact_json.encode('utf-8')) of the artifacts uploaded.
MemSizes == {1, 3}

\* max_size_mb * 1024 * 1024, with a megabyte scaled down to four bytes.
BytesPerMb == 4

\* The constructor arguments tried.
MemMaxArtifacts == {0, 1, 2}

MemMaxSizeMb == {0, 1}

\* Calls made on one object.
MaxMemCalls == 4

\* d[k] = v of a dict: the value is replaced in place, a new key is appended.
DictSet(d, k, v) ==
    IF k \in DictKeys(d)
    THEN [i \in DOMAIN d |-> IF d[i][1] = k THEN <<k, v>> ELSE d[i]]
    ELSE Append(d, <<k, v>>)

\* del d[k]
DictDel(d, k) == SelectSeq(d, LAMBDA e : e[1] # k)

\* MemoryStorage.__init__
MemoryStorage(max_artifacts, max_size_mb) ==
    [op |-> "init", id |-> None, returned |-> None,
     _store |-> <<>>, _access_times |-> <<>>, _total_size_bytes |-> 0,
     _max_artifacts |-> max_artifacts,
     _max_size_bytes |-> max_size_mb * BytesPerMb,
     utcnow |-> 0, calls |-> 0,
     evicted |-> <<>>, used |-> [id \in MemIds |-> -1],
     used_before |-> [id \in MemIds |-> -1]]

\* delete(): the fields after the call.
MemDeleted(m, artifact_id) ==
    IF artifact_id \notin DictKeys(m._store)
    THEN m
    ELSE [m EXCEPT !._total_size_bytes = @ - DictGet(m._store, artifact_id),
                   !._store = DictDel(@, artifact_id),
                   !._access_times = DictDel(@, artifact_id)]

\* The choice of _evict_lru turned round: the item with the largest time.
NewestId(access_times) ==
    access_times[CHOOSE i \in DOMAIN access_times :
        \A j \in DOMAIN access_times :
            \/ access_times[j][2] < access_times[i][2]
            \/ access_times[j][2] = access_times[i][2] /\ i <= j][1]

\* min(self._access_times.items(), key=lambda x: x[1])[0]: the first item, in
\* the dict's order, of those with the smallest time.
LruId(access_times) ==
    access_times[CHOOSE i \in DOMAIN access_times :
        \A j \in DOMAIN access_times :
            \/ access_times[i][2] < access_times[j][2]
            \/ access_times[i][2] = access_times[j][2] /\ i <= j][1]

\* _evict_lru(): the fields after the call; the eviction is noted with the
\* ids stored when it was made.
EvictLru(m) ==
    IF m._access_times = <<>>
    THEN m
    ELSE LET lru_id == LruId(m._access_times)
         IN  [MemDeleted(m, lru_id) EXCEPT
                 !.evicted = Append(@, [id |-> lru_id,
                                        among |-> DictKeys(m._store)])]

RECURSIVE EvictBySize(_, _)
\* The second loop of _evict_if_needed.
EvictBySize(m, new_artifact_size) ==
    IF m._total_size_bytes + new_artifact_size > m._max_size_bytes
          /\ m._store # <<>>
    THEN EvictBySize(EvictLru(m), new_artifact_size)
    ELSE m

RECURSIVE EvictIfNeeded(_, _)
\* _evict_if_needed(): the first loop, then the second.  A turn of the first
\* loop that finds nothing to evict changes nothing, so the loop never ends.
EvictIfNeeded(m, new_artifact_size) ==
    IF Len(m._store) >= m._max_artifacts
    THEN IF EvictLru(m) = m
         THEN [m EXCEPT !.returned = "never"]
         ELSE EvictIfNeeded(EvictLru(m), new_artifact_size)
    ELSE EvictBySize(m, new_artifact_size)

\* The fields a call starts from: the clock read, the call counted.
MemCalled(op, artifact_id, tick) ==
    [mem EXCEPT !.op = op, !.id = artifact_id, !.returned = None,
                !.utcnow = @ + tick, !.calls = @ + 1,
                !.evicted = <<>>, !.used_before = mem.used]

\* upload(artifact, artifact_id)
MemUpload(artifact_id, artifact_size, tick) ==
    LET m == EvictIfNeeded(MemCalled("upload", artifact_id, tick), artifact_size)
    IN  mem' = IF m.returned = "never"
               THEN m
               ELSE [m EXCEPT
                       !._store = DictSet(@, artifact_id, artifact_size),
                       !._access_times = DictSet(@, artifact_id, m.utcnow),
                       !._total_size_bytes = @ + artifact_size,
                       !.used[artifact_id] = m.utcnow,
                       !.returned = "memory://"]

\* download(artifact_id)
MemDownload(artifact_id, tick) ==
    LET m == MemCalled("download", artifact_id, tick)
    IN  mem' = IF artifact_id \notin DictKeys(m._store)
               THEN m
               ELSE [m EXCEPT
                       !._access_times = DictSet(@, artifact_id, m.utcnow),
                       !.used[artifact_id] = m.utcnow,
                       !.returned = "artifact"]

\* delete(artifact_id)
MemDelete(artifact_id, tick) ==
    LET m == MemCalled("delete", artifact_id, tick)
    IN  mem' = [MemDeleted(m, artifact_id) EXCEPT
                   !.returned = IF artifact_id \in DictKeys(m._store)
                                 THEN "True" ELSE "False"]

\* clear()
MemClear(tick) ==
    mem' = [MemCalled("clear", None, tick) EXCEPT
               !._store = <<>>, !._access_times = <<>>,
               !._total_size_bytes = 0]

\* A call can begin: the object exists, no call hangs in it, calls are left.
MemRunning ==
    /\ mem # Unused
    /\ mem.returned # "never"
    /\ mem.calls < MaxMemCalls

\* The clock may or may not have moved since the last call read it.
ClockSteps == {0, 1}

DoMemUpload ==
    /\ MemRunning
    /\ \E artifact_id \in MemIds, artifact_size \in MemSizes, tick \in ClockSteps :
           MemUpload(artifact_id, artifact_size, tick)
    /\ UNCHANGED notMemVars

DoMemDownload ==
    /\ MemRunning
    /\ \E artifact_id \in MemIds, tick \in ClockSteps : MemDownload(artifact_id, tick)
    /\ UNCHANGED notMemVars

DoMemDelete ==
    /\ MemRunning
    /\ \E artifact_id \in MemIds, tick \in ClockSteps : MemDelete(artifact_id, tick)
    /\ UNCHANGED notMemVars

DoMemClear ==
    /\ MemRunning
    /\ \E tick \in ClockSteps : MemClear(tick)
    /\ UNCHANGED notMemVars

NextMemory == DoMemUpload \/ DoMemDownload \/ DoMemDelete \/ DoMemClear

FirstIdle == CoreIdle /\ ScorerIdle /\ ArsIdle /\ TrackerIdle /\ StoreIdle

InitMemory ==
    /\ FirstIdle /\ LookupIdle /\ SealedIdle /\ AbIdle /\ McpIdle
    /\ \E max_artifacts \in MemMaxArtifacts, max_size_mb \in MemMaxSizeMb :
           mem = MemoryStorage(max_artifacts, max_size_mb)

SpecMemory == InitMemory /\ [][NextMemory]_vars

\* The sum of the 'size' entries of _store.
RECURSIVE StoredSize(_)
StoredSize(stored_entries) ==
    IF stored_entries = <<>> THEN 0
    ELSE Head(stored_entries)[2] + StoredSize(Tail(stored_entries))

\* C24: with max_artifacts >= 1 the store never holds more than max_artifacts
\* artifacts, every upload returns, and each artifact an upload evicts is one
\* whose most recent upload or download is no later than that of any other
\* artifact stored at that moment.
C24_CountCapAndLru ==
    (mem # Unused /\ mem._max_artifacts >= 1) =>
        /\ Len(mem._store) <= mem._max_artifacts
        /\ mem.op = "upload" => mem.returned = "memory://"
        /\ \A n \in DOMAIN mem.evicted :
               \A other \in mem.evicted[n].among :
                   mem.used_before[mem.evicted[n].id] <= mem.used_before[other]

\* An upload into a full store has evicted the older of two artifacts, the
\* younger one having been downloaded since.
C24_Witness ==
    /\ mem # Unused /\ mem._max_artifacts = 2
    /\ mem.op = "upload" /\ mem.returned = "memory://"
    /\ Len(mem.evicted) = 1
    /\ \E other \in mem.evicted[1].among :
           mem.used_before[mem.evicted[1].id] < mem.used_before[other]
    /\ Len(mem._store) = 2

\* C26: _total_size_bytes is the sum of the sizes of the artifacts stored,
\* and _store and _access_times have the same keys.
C26_SizeAccounting ==
    mem # Unused =>
        /\ mem._total_size_bytes = StoredSize(mem._store)
        /\ DictKeys(mem._store) = DictKeys(mem._access_times)

(***************************************************************************)
(* Kurral_tester/artifact_manager.py : ArtifactManager.load_by_run_id over *)
(* a store directory that save() fills and that files can vanish from.     *)
(***************************************************************************)

\* The kurral_ids and run_ids of the artifacts saved.
LookupIds == {"k1", "k2"}

RunIds == {"r1", "r2"}

\* Calls and outside changes made on one store directory.
MaxLookupSteps == 4

\* What load() and load_by_run_id() hand back when they find nothing, and
\* what stands for the exception KurralArtifact.load lets through.
NoArtifact == [kurral_id |-> None, run_id |-> None]

LoadRaised == [kurral_id |-> "raised", run_id |-> None]

\* ArtifactManager.__init__: an empty directory.
LookupStart ==
    [op |-> "init", run_id |-> None, returned |-> NoArtifact, steps |-> 0,
     files |-> [kurral_id \in LookupIds |-> "absent"],
     index |-> [state |-> "absent", artifacts |-> <<>>]]

\* _load_index(): the "artifacts" list of what it returns.
LoadIndex(index) == IF index.state = "complete" THEN index.artifacts ELSE <<>>

\* load(kurral_id): None for no file, the artifact of a file that parses,
\* and the exception of KurralArtifact.load for one that does not.
Load(files, kurral_id) ==
    CASE files[kurral_id] = "absent" -> NoArtifact
      [] files[kurral_id] = "corrupt" -> LoadRaised
      [] OTHER -> [kurral_id |-> kurral_id, run_id |-> files[kurral_id]]

\* The first index entry with the run_id, by position; 0 for none.
FirstEntry(artifacts, run_id) ==
    IF \E i \in DOMAIN artifacts : artifacts[i].run_id = run_id
    THEN CHOOSE i \in DOMAIN artifacts :
             /\ artifacts[i].run_id = run_id
             /\ \A j \in 1..(i - 1) : artifacts[j].run_id # run_id
    ELSE 0

\* What load_by_run_id can return: the load of the first index entry with the
\* run_id, else any file of the directory that parses and has the run_id
\* (glob yields the files in no fixed order), else None.
LoadByRunIdResults(files, index, run_id) ==
    LET artifacts == LoadIndex(index)
        hit == FirstEntry(artifacts, run_id)
        found == {kurral_id \in LookupIds : files[kurral_id] = run_id}
    IN  IF hit # 0 THEN {Load(files, artifacts[hit].kurral_id)}
        ELSE IF found # {} THEN {Load(files, kurral_id) : kurral_id \in found}
        ELSE {NoArtifact}

\* _update_index(artifact): the index after it.
UpdateIndex(index, kurral_id, run_id) ==
    [state |-> "complete",
     artifacts |-> Append(SelectSeq(LoadIndex(index),
                                    LAMBDA a : a.kurral_id # kurral_id),
                          [kurral_id |-> kurral_id, run_id |-> run_id])]

LookupStep(op, run_id) ==
    [lookup EXCEPT !.op = op, !.run_id = run_id, !.returned = NoArtifact,
                   !.steps = @ + 1]

LookupRunning == lookup # Unused /\ lookup.steps < MaxLookupSteps

\* save(artifact): the file is written, then the index updated.
DoLookupSave ==
    /\ LookupRunning
    /\ \E kurral_id \in LookupIds, run_id \in RunIds :
           lookup' = [LookupStep("save", run_id) EXCEPT
                         !.files[kurral_id] = run_id,
                         !.index = UpdateIndex(@, kurral_id, run_id)]
    /\ UNCHANGED notLookupVars

\* load_by_run_id(run_id)
DoLoadByRunId ==
    /\ LookupRunning
    /\ \E run_id \in RunIds :
         \E returned \in LoadByRunIdResults(lookup.files, lookup.index, run_id) :
           lookup' = [LookupStep("load_by_run_id", run_id) EXCEPT
                         !.returned = returned]
    /\ UNCHANGED notLookupVars

\* Somebody removes an artifact file, or leaves one that does not parse.
DoFileChanged ==
    /\ LookupRunning
    /\ \E kurral_id \in LookupIds, state \in {"absent", "corrupt"} :
           /\ lookup.files[kurral_id] \notin {"absent", state}
           /\ lookup' = [LookupStep("file", None) EXCEPT
                            !.files[kurral_id] = state]
    /\ UNCHANGED notLookupVars

\* index.json is removed, or left in a state json.load rejects.
DoIndexChanged ==
    /\ LookupRunning
    /\ \E state \in {"absent", "unreadable"} :
           /\ lookup.index.state \notin {"absent", state}
           /\ lookup' = [LookupStep("index", None) EXCEPT
                            !.index = [state |-> state, artifacts |-> <<>>]]
    /\ UNCHANGED notLookupVars

NextLookup == DoLookupSave \/ DoLoadByRunId \/ DoFileChanged \/ DoIndexChanged

InitLookup ==
    /\ FirstIdle /\ MemIdle /\ SealedIdle /\ AbIdle /\ McpIdle
    /\ lookup = LookupStart

SpecLookup == InitLookup /\ [][NextLookup]_vars

\* C28: load_by_run_id(r) returns an artifact with run_id r whenever a file of
\* the store parses and has run_id r, whatever index.json holds; it returns
\* None only when no stored artifact has run_id r.
C28_LoadByRunIdFinds ==
    (lookup # Unused /\ lookup.op = "load_by_run_id") =>
        LET found == {kurral_id \in LookupIds :
                          lookup.files[kurral_id] = lookup.run_id}
        IN  /\ found # {} =>
                lookup.returned.run_id = lookup.run_id
            /\ lookup.returned = NoArtifact => found = {}

(***************************************************************************)
(* One persisted artifact: ArtifactGenerator.generate seals it and the     *)
(* decorator writes it; _enrich_artifact_from_langsmith_sync rewrites the  *)
(* file later from a background thread.                                    *)
(***************************************************************************)

\* The LLM configs a run is captured with or enriched to: pinned and seeded,
\* sampled freely, and UnknownConfig for a run whose model was not seen.
PinnedConfig ==
    [model_name |-> <<"g", "p", "t", "-", "4", "-", "0", "6", "1", "3">>,
     model_version |-> <<"0613">>, seed |-> <<12345>>, temperature |-> 0,
     top_p |-> <<>>, presence_penalty |-> <<>>, frequency_penalty |-> <<0>>]

LooseConfig ==
    [model_name |-> <<"g", "p", "t", "4">>,
     model_version |-> <<>>, seed |-> <<>>, temperature |-> 70,
     top_p |-> <<95>>, presence_penalty |-> <<>>, frequency_penalty |-> <<0>>]

SealedConfigs == {PinnedConfig, LooseConfig, UnknownConfig}

\* The tool calls captured by the wrapper or found in the LangSmith run.
SealedCallLists == {tool_calls \in ScoredCallLists : Len(tool_calls) <= 1}

\* token_usage.total_tokens of the LangSmith run.
TotalTokens == {0, 5}

\* generate() and the write of the file: the fields of the file.
Seal(config, prompt, tool_calls) ==
    sealed' = Generated([op |-> "persisted", llm_config |-> config,
                         resolved_prompt |-> prompt, tool_calls |-> tool_calls,
                         token_usage |-> 0, report |-> <<>>,
                         replay_level |-> None, deterministic |-> <<>>],
                        ScoreReport(config, prompt, tool_calls, <<>>))

\* _enrich_artifact_from_langsmith_sync, lines 1222-1244: what the context
\* got from LangSmith is put over the loaded fields and the file is written.
Enrich(llm_config, tool_calls, total_tokens) ==
    sealed' = [sealed EXCEPT
                 !.op = "enriched",
                 !.llm_config =
                     IF llm_config # <<>> /\ llm_config[1].model_name # Unknown
                     THEN llm_config[1] ELSE @,
                 !.tool_calls = IF tool_calls # <<>> THEN tool_calls ELSE @,
                 !.token_usage = IF total_tokens > 0 THEN total_tokens ELSE @]

DoSeal ==
    /\ sealed # Unused /\ sealed.op = "init"
    /\ \E config \in SealedConfigs, prompt \in Prompts,
          tool_calls \in SealedCallLists :
            Seal(config, prompt, tool_calls)
    /\ UNCHANGED notSealedVars

DoEnrich ==
    /\ sealed # Unused /\ sealed.op = "persisted"
    /\ \E llm_config \in {<<>>} \cup {<<config>> : config \in SealedConfigs},
          tool_calls \in SealedCallLists, total_tokens \in TotalTokens :
            Enrich(llm_config, tool_calls, total_tokens)
    /\ UNCHANGED notSealedVars

NextSealed == DoSeal \/ DoEnrich

InitSealed ==
    /\ FirstIdle /\ MemIdle /\ LookupIdle /\ AbIdle /\ McpIdle
    /\ sealed = [op |-> "init"]

SpecSealed == InitSealed /\ [][NextSealed]_vars

\* C23: in every persisted artifact, before and after enrichment,
\* replay_level is A for a score of at least 0.90, B for one of at least 0.50
\* and C below, and the score is the scorer's for the llm_config, prompt and
\* tool_calls of the same file.
C23_PersistedLevelMatchesContent ==
    (sealed # Unused /\ sealed.op \in {"persisted", "enriched"}) =>
        LET s == sealed.report[1].overall_score
        IN  /\ sealed.replay_level =
                   IF ~FLess(s, Lit[90]) THEN "A"
                   ELSE IF ~FLess(s, Lit[50]) THEN "B" ELSE "C"
            /\ s = ScoreReport(sealed.llm_config, sealed.resolved_prompt,
                               sealed.tool_calls, <<>>).overall_score

(***************************************************************************)
(* kurral/core/ab_test.py : ABTestEngine.run_ab_test                       *)
(***************************************************************************)

RECURSIVE BigSubB(_, _, _, _)
BigSubB(x, y, i, borrow) ==
    IF i > Len(x) THEN <<>>
    ELSE <<(x[i] - Limb(y, i) - borrow + Base) % Base>>
            \o BigSubB(x, y, i + 1, IF x[i] - Limb(y, i) - borrow < 0 THEN 1 ELSE 0)

\* x - y, for x >= y
BigSub(x, y) == BigNorm(BigSubB(x, y, 1, 0))

\* float - float, for x >= y >= 0
FSub(x, y) ==
    LET emin == IF x.e < y.e THEN x.e ELSE y.e
    IN  IF y = FZero THEN x
        ELSE FRound(BigSub(BigShl(x.m, x.e - emin), BigShl(y.m, y.e - emin)), emin)

\* b - a for floats that are not negative: the sign and the size of it
FDiff(b, a) ==
    IF FLess(b, a) THEN [negative |-> TRUE, size |-> FSub(a, b)]
    ELSE [negative |-> FALSE, size |-> FSub(b, a)]

\* float / int, for 0 < n < Base
FDivInt(x, n) ==
    LET scaled == BigDivSmall(BigShl(x.m, 5 * LimbBits), n)
        sticky == IF scaled.r = 0 THEN <<>> ELSE <<1>>
    IN  IF x = FZero THEN FZero
        ELSE FRound(BigAdd(BigShl(scaled.q, 1), sticky), x.e - (5 * LimbBits + 1))

\* Artifacts a test suite holds, and the suites tried.
MaxSuite == 2

SuiteArtifacts ==
    [outputs : {<<>>, << <<"n", "1">> >>}, tool_calls : {<<>>, <<ToolPost>>},
     error : {PyNone}]

TestSuites == UNION { [1..n -> SuiteArtifacts] : n \in 1..MaxSuite }

\* VersionConfig: the fields _version_to_overrides reads; <<>> is None.
VersionConfigs ==
    [model_name : {<<>>, <<"gpt-4-turbo">>}, prompt : {<<>>},
     temperature : {<<>>, <<0>>}, max_tokens : {<<>>}]

\* threshold: 0.50, 0.90, 1.0 and 1.01
Thresholds == {Lit[50], Lit[90], FOne, Lit[101]}

\* _select_test_suite(artifacts, min_samples, max_samples); None is no cap.
select_test_suite(artifacts, min_samples, max_samples) ==
    LET capped == IF max_samples < Len(artifacts) THEN max_samples ELSE Len(artifacts)
        selected_count == IF min_samples > capped THEN min_samples ELSE capped
    IN  IF max_samples = -1 THEN artifacts
        ELSE SubSeq(artifacts, 1,
                    IF selected_count < Len(artifacts) THEN selected_count
                    ELSE Len(artifacts))

\* _version_to_overrides(version)
version_to_overrides(version) ==
    <<[model_name |-> version.model_name, prompt |-> version.prompt,
       temperature |-> version.temperature, max_tokens |-> version.max_tokens]>>

\* _result_to_artifact
result_to_artifact(outputs, baseline) == [baseline EXCEPT !.outputs = outputs]

\* lines 153-169: the scores of one artifact of the suite
ArtifactScores(baseline, version_a, version_b) ==
    LET a_ars == calculate(baseline,
                     result_to_artifact(
                         ReplayedOutputs(baseline, version_to_overrides(version_a)),
                         baseline))
        b_ars == calculate(baseline,
                     result_to_artifact(
                         ReplayedOutputs(baseline, version_to_overrides(version_b)),
                         baseline))
    IN  [a_ars |-> a_ars, b_ars |-> b_ars, b_improvement |-> FDiff(b_ars, a_ars)]

\* sum(scores), left to right from 0
RECURSIVE SumTo(_, _, _)
SumTo(per_artifact_scores, key, n) ==
    IF n = 0 THEN FZero
    ELSE FAdd(SumTo(per_artifact_scores, key, n - 1), per_artifact_scores[n][key])

\* _make_recommendation(b_mean_ars, b_improvement, failures, threshold)
make_recommendation(b_mean_ars, b_improvement, failures, threshold) ==
    IF FLeq(threshold, b_mean_ars) /\ ~b_improvement.negative /\ failures = 0
    THEN "deploy"
    ELSE IF FLess(b_mean_ars, threshold)
              \/ (b_improvement.negative /\ FLess(Lit[5], b_improvement.size))
    THEN "reject"
    ELSE "needs_review"

\* lines 145-225, on the scores of the selected suite
AbResult(version_a, version_b, per_artifact_scores, threshold) ==
    LET count == Len(per_artifact_scores)
        failures == SelectSeq(per_artifact_scores,
                        LAMBDA s : FLess(s.b_ars, s.a_ars) /\ FLess(s.b_ars, threshold))
        a_mean_ars == FDivInt(SumTo(per_artifact_scores, "a_ars", count), count)
        b_mean_ars == FDivInt(SumTo(per_artifact_scores, "b_ars", count), count)
    IN  [op |-> "run_ab_test", threshold |-> threshold,
         version_a |-> version_a, version_b |-> version_b,
         per_artifact_scores |-> per_artifact_scores, failures |-> failures,
         a_mean_ars |-> a_mean_ars, b_mean_ars |-> b_mean_ars,
         b_improvement |-> FDiff(b_mean_ars, a_mean_ars),
         recommendation |-> make_recommendation(b_mean_ars,
                                FDiff(b_mean_ars, a_mean_ars), Len(failures), threshold)]

\* run_ab_test(test_suite, version_a, version_b, threshold, min_samples,
\* max_samples)
RunAbTest(test_suite, version_a, version_b, threshold, min_samples, max_samples) ==
    LET selected_suite == select_test_suite(test_suite, min_samples, max_samples)
    IN  ab' = AbResult(version_a, version_b,
                       [i \in DOMAIN selected_suite |->
                           ArtifactScores(selected_suite[i], version_a, version_b)],
                       threshold)

DoRunAbTest ==
    /\ ab # Unused /\ ab.op = "init"
    /\ \E version_a, version_b \in VersionConfigs, threshold \in Thresholds,
          min_samples \in {0, 5}, max_samples \in {-1, 1} :
            RunAbTest(ab.test_suite, version_a, version_b, threshold,
                      min_samples, max_samples)
    /\ UNCHANGED notAbVars

NextAb == DoRunAbTest

\* The engine is handed a test suite that is not empty.
InitAb ==
    /\ FirstIdle /\ MemIdle /\ LookupIdle /\ SealedIdle /\ McpIdle
    /\ \E test_suite \in TestSuites : ab = [op |-> "init", test_suite |-> test_suite]

SpecAb == InitAb /\ [][NextAb]_vars

\* C29: run_ab_test gives every artifact a_ars = b_ars = 1.0, hence a
\* b_improvement of 0 and no failures, and recommends "deploy" when the
\* threshold is at most 1.0 and "reject" otherwise.
C29_AbTestOfEqualVersions ==
    (ab # Unused /\ ab.op = "run_ab_test") =>
        /\ \A i \in DOMAIN ab.per_artifact_scores :
               /\ ab.per_artifact_scores[i].a_ars = FOne
               /\ ab.per_artifact_scores[i].b_ars = FOne
        /\ ab.b_improvement.size = FZero
        /\ ab.failures = <<>>
        /\ ab.recommendation = IF FLeq(ab.threshold, FOne) THEN "deploy" ELSE "reject"

(***************************************************************************)
(* kurral/mcp : MCPCaptureEngine (RECORD) and MCPReplayEngine (REPLAY), as *)
(* test_sse_manual.py drives them.                                         *)
(***************************************************************************)

\* Calls recorded in one session, and SSE events of one call.
MaxMcpCalls == 2

MaxEvents == 2

\* Calls in flight at one time.
MaxInFlight == 2

\* JSONRPCRequest: id, method, params.name, params.arguments
McpRequests ==
    {request \in [id : {"i1", "i2"}, method : {"tools/call"},
                  name : {"analyze", "add"}, arguments : {"a1", "a2"}] :
        request.name = "add" => request.arguments = "a1"}

\* The requests of the recorded session.
RecordedRequests == {request \in McpRequests : request.id = "i1"}

McpResults == {"r1", "r2"}

\* The data of an SSE event: a progress report or the final result.
ProgressData == << <<"status", "s1">> >>

CompleteData(final) == << <<"result", final>> >>

\* MCPCaptureEngine(config)
McpStart ==
    [mode |-> "record", op |-> "init", next_tracking_id |-> 1,
     active |-> <<>>, captured_calls |-> <<>>, cached_calls |-> <<>>,
     request |-> <<>>, response |-> <<>>]

\* capture_request(request, server): a call in flight under a new tracking id
CaptureRequest(request, server) ==
    mcp' = [mcp EXCEPT
              !.op = "capture_request",
              !.next_tracking_id = @ + 1,
              !.active = DictSet(@, mcp.next_tracking_id,
                            [server |-> server, method |-> request.method,
                             tool_name |-> request.name,
                             arguments |-> request.arguments,
                             request_id |-> request.id, result |-> None,
                             was_sse |-> FALSE, events |-> <<>>])]

\* capture_event(tracking_id, data, event_type): the event is appended with
\* its time, which stands here for the time since the call began
CaptureEvent(tracking_id, data, event_type) ==
    LET call == DictGet(mcp.active, tracking_id)
    IN  mcp' = [mcp EXCEPT
                  !.op = "capture_event",
                  !.active = DictSet(@, tracking_id,
                      [call EXCEPT
                          !.was_sse = TRUE,
                          !.events = Append(@, [event_type |-> event_type,
                                                data |-> data,
                                                timestamp |-> Len(call.events) + 1])])]

\* The unary response of the upstream server is captured.
CaptureResponse(tracking_id, unary) ==
    LET call == DictGet(mcp.active, tracking_id)
    IN  mcp' = [mcp EXCEPT
                  !.op = "capture_response",
                  !.active = DictSet(@, tracking_id, [call EXCEPT !.result = unary])]

\* finalize_capture(tracking_id): the call leaves the calls in flight and is
\* appended to the captured ones; an SSE call keeps its last event's data as
\* result.
FinalizeCapture(tracking_id) ==
    LET call == DictGet(mcp.active, tracking_id)
        final == IF call.was_sse
                 THEN [call EXCEPT !.result = call.events[Len(call.events)].data]
                 ELSE call
    IN  mcp' = [mcp EXCEPT
                  !.op = "finalize_capture",
                  !.active = DictDel(@, tracking_id),
                  !.captured_calls = Append(@, final)]

\* MCPEvent.model_dump() / CapturedMCPCall.model_dump(): the dict exported
DumpEvent(event) ==
    << <<"event_type", event.event_type>>, <<"data", event.data>>,
       <<"timestamp", event.timestamp>> >>

DumpCall(call) ==
    << <<"server", call.server>>, <<"method", call.method>>,
       <<"tool_name", call.tool_name>>, <<"arguments", call.arguments>>,
       <<"result", call.result>>, <<"was_sse", call.was_sse>>,
       <<"events", [i \in DOMAIN call.events |-> DumpEvent(call.events[i])]>> >>

\* export_to_kurral(): {"mcp_tool_calls": [...]}
ExportToKurral(captured_calls) ==
    << <<"mcp_tool_calls",
         [i \in DOMAIN captured_calls |-> DumpCall(captured_calls[i])]>> >>

\* MCPReplayEngine(config, artifact_data): cached_calls read from the dict
CachedEvent(dumped) ==
    [event_type |-> DictGet(dumped, "event_type"), data |-> DictGet(dumped, "data"),
     timestamp |-> DictGet(dumped, "timestamp")]

CachedCall(dumped) ==
    [server |-> DictGet(dumped, "server"), method |-> DictGet(dumped, "method"),
     tool_name |-> DictGet(dumped, "tool_name"),
     arguments |-> DictGet(dumped, "arguments"),
     result |-> DictGet(dumped, "result"), was_sse |-> DictGet(dumped, "was_sse"),
     events |-> [i \in DOMAIN DictGet(dumped, "events") |->
                    CachedEvent(DictGet(dumped, "events")[i])]]

CachedCalls(artifact_data) ==
    [i \in DOMAIN DictGet(artifact_data, "mcp_tool_calls") |->
        CachedCall(DictGet(artifact_data, "mcp_tool_calls")[i])]

\* The request and the cached call have the same lookup key.
SameCall(request, call) ==
    /\ call.method = request.method
    /\ call.tool_name = request.name
    /\ call.arguments = request.arguments

\* A response that hands back the cached result of an SSE call as it is.
UnextractedResponse(request, call) ==
    [found |-> TRUE, id |-> request.id, result |-> call.result,
     was_sse |-> call.was_sse, events |-> call.events]

\* The response replayed from a cached call: the incoming id, the events in
\* order, the result of the terminal event or of the unary call.
ReplayResponse(request, call) ==
    [found |-> TRUE, id |-> request.id,
     result |-> IF call.was_sse
                THEN DictGet(call.events[Len(call.events)].data, "result")
                ELSE call.result,
     was_sse |-> call.was_sse, events |-> call.events]

\* JSON-RPC error -32001 Replay miss
ReplayMiss(request) ==
    [found |-> FALSE, id |-> request.id, result |-> None, was_sse |-> FALSE,
     events |-> <<>>]

\* find_cached_response(request): a cached call with the request's key, or
\* the miss.
FindCachedResponse(request) ==
    LET matching == {i \in DOMAIN mcp.cached_calls :
                        SameCall(request, mcp.cached_calls[i])}
    IN  IF matching = {}
        THEN mcp' = [mcp EXCEPT !.op = "find_cached_response",
                                !.request = <<request>>,
                                !.response = <<ReplayMiss(request)>>]
        ELSE \E i \in matching :
               mcp' = [mcp EXCEPT
                         !.op = "find_cached_response",
                         !.request = <<request>>,
                         !.response = <<ReplayResponse(request,
                                                       mcp.cached_calls[i])>>]

McpRecording == mcp # Unused /\ mcp.mode = "record"

DoCaptureRequest ==
    /\ McpRecording
    /\ mcp.next_tracking_id <= MaxMcpCalls
    /\ Len(mcp.active) < MaxInFlight
    /\ \E request \in RecordedRequests : CaptureRequest(request, "server")
    /\ UNCHANGED notMcpVars

\* The events of a stream come in order; "complete" is the terminal one.
DoCaptureEvent ==
    /\ McpRecording
    /\ \E tracking_id \in DictKeys(mcp.active) :
         LET call == DictGet(mcp.active, tracking_id)
         IN  /\ call.result = None
             /\ Len(call.events) < MaxEvents
             /\ \A i \in DOMAIN call.events : call.events[i].event_type # "complete"
             /\ \/ CaptureEvent(tracking_id, ProgressData, "progress")
                \/ \E final \in McpResults :
                     CaptureEvent(tracking_id, CompleteData(final), "complete")
    /\ UNCHANGED notMcpVars

DoCaptureResponse ==
    /\ McpRecording
    /\ \E tracking_id \in DictKeys(mcp.active), unary \in McpResults :
         /\ DictGet(mcp.active, tracking_id).result = None
         /\ DictGet(mcp.active, tracking_id).events = <<>>
         /\ CaptureResponse(tracking_id, unary)
    /\ UNCHANGED notMcpVars

\* A call is finalized on its terminal event or its unary response.
DoFinalizeCapture ==
    /\ McpRecording
    /\ \E tracking_id \in DictKeys(mcp.active) :
         LET call == DictGet(mcp.active, tracking_id)
         IN  /\ \/ call.result # None
                \/ /\ call.events # <<>>
                   /\ call.events[Len(call.events)].event_type = "complete"
             /\ FinalizeCapture(tracking_id)
    /\ UNCHANGED notMcpVars

\* The session is exported and a replay engine built on the artifact.
DoExportAndReplay ==
    /\ McpRecording
    /\ mcp' = [mcp EXCEPT
                 !.mode = "replay", !.op = "export_to_kurral",
                 !.cached_calls = CachedCalls(ExportToKurral(mcp.captured_calls))]
    /\ UNCHANGED notMcpVars

DoFindCachedResponse ==
    /\ mcp # Unused /\ mcp.mode = "replay"
    /\ \E request \in McpRequests : FindCachedResponse(request)
    /\ UNCHANGED notMcpVars

NextMcp ==
    \/ DoCaptureRequest \/ DoCaptureEvent \/ DoCaptureResponse
    \/ DoFinalizeCapture \/ DoExportAndReplay \/ DoFindCachedResponse

InitMcp ==
    /\ FirstIdle /\ MemIdle /\ LookupIdle /\ SealedIdle /\ AbIdle
    /\ mcp = McpStart

SpecMcp == InitMcp /\ [][NextMcp]_vars

\* The event names and data of a stream, in order, without the times.
Stream(events) ==
    [i \in DOMAIN events |-> <<events[i].event_type, events[i].data>>]

\* C21: in REPLAY mode a request with the method, tool name and arguments of
\* a recorded and exported call is answered from a call recorded under that
\* key: the response carries the request's id, the recorded events in their
\* order, and as result the `result` field of the terminal event of an SSE
\* call, the recorded result of a unary one.
C21_RecordReplaySymmetry ==
    (mcp # Unused /\ mcp.op = "find_cached_response") =>
        LET request == mcp.request[1]
            response == mcp.response[1]
            recorded == {i \in DOMAIN mcp.captured_calls :
                             SameCall(request, mcp.captured_calls[i])}
        IN  recorded # {} =>
              /\ response.found
              /\ response.id = request.id
              /\ \E i \in recorded :
                   LET call == mcp.captured_calls[i]
                   IN  /\ Stream(response.events) = Stream(call.events)
                       /\ response.was_sse = call.was_sse
                       /\ call.was_sse =>
                            CompleteData(response.result)
                                = call.events[Len(call.events)].data
                       /\ ~call.was_sse => response.result = call.result

\* An SSE call of two events was recorded under one id and replayed to a
\* request with another.
C21_Witness ==
    /\ mcp # Unused /\ mcp.op = "find_cached_response"
    /\ mcp.response[1].found /\ mcp.response[1].was_sse
    /\ Len(mcp.response[1].events) = 2
    /\ \E i \in DOMAIN mcp.captured_calls :
         /\ SameCall(mcp.request[1], mcp.captured_calls[i])
         /\ mcp.captured_calls[i].request_id # mcp.request[1].id

=============================================================================
